---------------------------- MODULE Spec2Model ----------------------------
(***************************************************************************)
(* A model of the tenant-scoped authentication core of the task manager   *)
(* backend (src/backend/app): the login rate limiter, the refresh-token   *)
(* rotation, the OTP second factor, registration, the tenant resolver and *)
(* the task endpoints gated by it.                                        *)
(*                                                                         *)
(* Every request handler is an async coroutine: it runs without           *)
(* interruption between two awaits, and other requests (and the clock)    *)
(* may run at each await.  A handler is therefore a sequence of steps, one *)
(* per awaited store operation, executed by one of the request slots of   *)
(* Procs.  The relational store is read committed: a SELECT sees what is  *)
(* committed when it runs, and a session's changes reach the store at its *)
(* commit.  Times are in seconds.                                          *)
(***************************************************************************)
EXTENDS Integers, Sequences, FiniteSets, TLC

VARIABLES
    now,    \* the clock (datetime.utcnow(), and the key store's clock)
    mode,   \* "seq": requests run one after the other; "conc": they interleave
    redis,  \* the shared key/counter store: key -> entry
    db,     \* the relational store: the committed rows of each table
    ids,    \* the store's id sequences, and the count of raw tokens drawn
    procs,  \* request slot -> the frame of the handler running in it
    log,    \* the responses returned so far, in order of completion
    pub,    \* the realtime events published so far, in order
    jobs,   \* the export jobs handed to the task queue so far, in order
    manager,    \* ConnectionManager.active_connections: org id -> sockets
    sockets,    \* socket -> the frame of the websocket_endpoint serving it
    listener,   \* the frame of redis_listener
    sent    \* the broadcast messages that reached a socket, in order

vars == <<now, mode, redis, db, ids, procs, log, pub, jobs,
          manager, sockets, listener, sent>>

dbVars == <<db, ids>>
taskVars == <<pub, jobs>>
wsVars == <<manager, sockets, listener, sent>>

(***************************************************************************)
(* Bounds of the model.                                                    *)
(***************************************************************************)
MaxRateCalls == 7   \* check_rate_limit calls started in a run
MaxRateTicks == 4   \* clock ticks of half a window in a rate-limiter run

Procs == {1, 2}

Idle == [op |-> "idle"]

\* Python's None.
None == [none |-> TRUE]

IdleAll == \A p \in Procs : procs[p] = Idle

\* A handler may start in a free slot; in "seq" mode only when no other runs.
CanStart(p) ==
    /\ procs[p] = Idle
    /\ mode = "seq" => IdleAll

\* The number of requests of the operations `ops` started so far.
Started(ops) ==
    Cardinality({i \in DOMAIN log : log[i].op \in ops})
        + Cardinality({p \in Procs : procs[p].op \in ops})

\* The body of a 200 response that carries a token pair.
TokenResponse(op, request, access_token, refresh_token) ==
    [op |-> op, status |-> 200, t |-> now,
     access_token |-> access_token, refresh_token |-> refresh_token] @@ request

\* An HTTPException, or 500 for an exception no handler catches.
ErrorResponse(op, request, status, detail) ==
    [op |-> op, status |-> status, t |-> now, detail |-> detail] @@ request

\* The handler in slot p returns response r.
Respond(p, r) ==
    /\ log' = Append(log, r)
    /\ procs' = [procs EXCEPT ![p] = Idle]

\* The handler in slot p goes on to step pc, keeping the locals `more`.
Goto(p, pc, more) ==
    procs' = [procs EXCEPT ![p] = more @@ [@ EXCEPT !.pc = pc]]

At(p, op, pc) == procs[p].op = op /\ procs[p].pc = pc

\* The fields of a login request.
LoginRequest(p) == [email |-> procs[p].email, password |-> procs[p].password]

(***************************************************************************)
(* The key store (Redis): GET, SETEX, INCR and key expiry.                 *)
(***************************************************************************)
\* The emails a login names: a registered one and one no user has.
LoginEmails == {"a@x.com", "nobody@x.com"}

\* rate_key = f"login_attempts:{request.email}"
rate_key(email) == <<"login_attempts", email>>

\* The email of an account created through Google sign-in.
OAuthEmails == {"g@x.com"}

\* The emails of the users that registered with a password.
PasswordEmails == {"a@x.com", "b@x.com", "c@x.com"}

RateKeys ==
    {rate_key(email) : email \in LoginEmails \cup OAuthEmails \cup PasswordEmails}

NoEntry == [present |-> FALSE, val |-> 0, ttl |-> FALSE, exp |-> 0]

\* GET key: the stored integer, or -1 for None.
RedisGet(key) == IF redis[key].present THEN redis[key].val ELSE -1

\* SETEX key window value: sets the value and (re)starts the expiry.
RedisSetex(key, window, value) ==
    [redis EXCEPT ![key] =
        [present |-> TRUE, val |-> value, ttl |-> TRUE, exp |-> now + window]]

\* INCR key: adds one; a missing key is created as 1 and carries no expiry.
RedisIncr(key) ==
    [redis EXCEPT ![key] =
        IF redis[key].present
        THEN [redis[key] EXCEPT !.val = @ + 1]
        ELSE [present |-> TRUE, val |-> 1, ttl |-> FALSE, exp |-> 0]]

\* The keys whose expiry has passed at time t are gone.
RedisExpire(r, t) ==
    [k \in DOMAIN r |->
        IF r[k].present /\ r[k].ttl /\ r[k].exp <= t THEN NoEntry ELSE r[k]]

(***************************************************************************)
(* AuthService.check_rate_limit(key, limit = 5, window = 300).             *)
(***************************************************************************)
RATE_LIMIT == 5
RATE_WINDOW == 300

\* A mutant of AtLimit: the comparison with the limit is off by one.
AtLimitOffByOne(current) == current # -1 /\ current > RATE_LIMIT

\* if int(current) >= limit (current is not None there).
AtLimit(current) == current # -1 /\ current >= RATE_LIMIT

\* A response of check_rate_limit called on its own.
RateResponse(key, allowed) ==
    [op |-> "check_rate_limit", key |-> key, allowed |-> allowed, t |-> now]

StartRateCheck(p, key) ==
    /\ CanStart(p)
    /\ Started({"check_rate_limit"}) < MaxRateCalls
    /\ procs' = [procs EXCEPT ![p] =
                    [op |-> "check_rate_limit", pc |-> "rl_get", key |-> key]]
    /\ UNCHANGED <<now, mode, redis, log, dbVars, taskVars, wsVars>>

\* A mutant of RateReturn: login goes on whatever the limiter answered.
RateReturnIgnoredByLogin(p, allowed) ==
    IF procs[p].op = "check_rate_limit"
    THEN Respond(p, RateResponse(procs[p].key, allowed))
    ELSE Goto(p, "find_user", <<>>) /\ UNCHANGED log

\* check_rate_limit returns `allowed`: to its caller when called on its own;
\* inside login (lines 102-108) False is the 429 response and True goes on to
\* the lookup of the user.
RateReturn(p, allowed) ==
    IF procs[p].op = "check_rate_limit"
    THEN Respond(p, RateResponse(procs[p].key, allowed))
    ELSE IF allowed
         THEN Goto(p, "find_user", <<>>) /\ UNCHANGED log
         ELSE Respond(p, ErrorResponse("login", LoginRequest(p), 429,
                                       "Too many login attempts"))

\* current = await redis_client.get(key); a counter at the limit returns False.
RateGet(p) ==
    /\ procs[p].op \in {"check_rate_limit", "login"}
    /\ procs[p].pc = "rl_get"
    /\ LET current == RedisGet(procs[p].key) IN
        IF AtLimit(current)
        THEN RateReturn(p, FALSE)
        ELSE Goto(p, "rl_write", [current |-> current]) /\ UNCHANGED log
    /\ UNCHANGED <<now, mode, redis, dbVars, taskVars, wsVars>>

\* await redis_client.setex(key, window, 1) when current was None, else
\* await redis_client.incr(key); both return True.
RateWrite(p) ==
    /\ procs[p].op \in {"check_rate_limit", "login"}
    /\ procs[p].pc = "rl_write"
    /\ redis' = IF procs[p].current = -1
                THEN RedisSetex(procs[p].key, RATE_WINDOW, 1)
                ELSE RedisIncr(procs[p].key)
    /\ RateReturn(p, TRUE)
    /\ UNCHANGED <<now, mode, dbVars, taskVars, wsVars>>

\* Half a window passes; expired keys disappear.  In "seq" mode a call takes
\* no time: the clock moves between calls only.
RateTick ==
    /\ now + RATE_WINDOW \div 2 <= MaxRateTicks * (RATE_WINDOW \div 2)
    /\ mode = "seq" => IdleAll
    /\ now' = now + RATE_WINDOW \div 2
    /\ redis' = RedisExpire(redis, now')
    /\ UNCHANGED <<mode, procs, log, dbVars, taskVars, wsVars>>

\* The WebSocket connections of a run.
Sockets == {1, 2}

\* A connection no client has opened yet.
Unopened == [pc |-> "unopened"]

\* manager = ConnectionManager() with no connection, and redis_listener
\* subscribed to org:*:tasks before the first event is published.
NoSockets ==
    /\ manager = <<>>
    /\ sockets = [s \in Sockets |-> Unopened]
    /\ listener = [pc |-> "listen", next |-> 1]
    /\ sent = <<>>

EmptyDb ==
    [orgs |-> {}, users |-> {}, memberships |-> {}, otps |-> {},
     tokens |-> {}, tasks |-> {}]

\* The process has started and no request has arrived yet.
InitCommon ==
    /\ now = 0
    /\ redis = [k \in RateKeys |-> NoEntry]
    /\ procs = [p \in Procs |-> Idle]
    /\ log = <<>>
    /\ pub = <<>>
    /\ jobs = <<>>
    /\ NoSockets

InitEmptyStore ==
    /\ db = EmptyDb
    /\ ids = [orgs |-> 0, users |-> 0, otps |-> 0, tokens |-> 0, tasks |-> 0,
              raw |-> 0]

RateNext ==
    \/ \E p \in Procs : StartRateCheck(p, rate_key("a@x.com"))
    \/ \E p \in Procs : RateGet(p)
    \/ \E p \in Procs : RateWrite(p)
    \/ RateTick

InitRate == InitCommon /\ InitEmptyStore /\ mode = "conc"

InitRateSeq == InitCommon /\ InitEmptyStore /\ mode = "seq"

\* The rate limiter under concurrent callers.
SpecRate == InitRate /\ [][RateNext]_vars

\* The rate limiter called sequentially.
SpecRateSeq == InitRateSeq /\ [][RateNext]_vars

(***************************************************************************)
(* The rate limiter's claims.                                              *)
(***************************************************************************)
\* The check_rate_limit responses for key k, in order.
RateCalls(k) ==
    SelectSeq(log, LAMBDA e : e.op = "check_rate_limit" /\ e.key = k)

\* The start of the fixed window that call j of s falls in: the first call
\* opens a window, and so does the first call made once a window is over.
RECURSIVE WindowStart(_, _)
WindowStart(s, j) ==
    IF j = 1 THEN s[1].t
    ELSE LET w == WindowStart(s, j - 1) IN
         IF s[j].t >= w + 300 THEN s[j].t ELSE w

\* The rank of call j among the calls of its window.
RankInWindow(s, j) ==
    Cardinality({i \in 1..j : WindowStart(s, i) = WindowStart(s, j)})

\* C7: called sequentially, check_rate_limit allows exactly the first 5 calls
\* of a 300 s window that opens at the first call; the 6th and later calls of
\* the window are rejected; when the window is over the counter is gone (so
\* the next call opens a new window and is allowed), and while it lasts the
\* counter is the number of calls allowed in it.
C7_FixedWindowSequential ==
    \A k \in RateKeys :
        LET s == RateCalls(k) IN
        /\ \A j \in 1..Len(s) : s[j].allowed <=> RankInWindow(s, j) <= 5
        /\ IdleAll =>
            /\ redis[k].present <=>
                (Len(s) > 0 /\ now < WindowStart(s, Len(s)) + 300)
            /\ redis[k].present =>
                /\ redis[k].ttl
                /\ redis[k].exp = WindowStart(s, Len(s)) + 300
                /\ redis[k].val =
                    Cardinality({j \in 1..Len(s) :
                        /\ s[j].allowed
                        /\ WindowStart(s, j) = WindowStart(s, Len(s))})

\* C7's case: a call was rejected (the 6th of its window) and a later call,
\* made after the window elapsed, was allowed.
C7_Witness ==
    \E k \in RateKeys :
        LET s == RateCalls(k) IN
        \E i, j \in 1..Len(s) :
            /\ i < j
            /\ ~s[i].allowed
            /\ s[j].allowed
            /\ WindowStart(s, j) > WindowStart(s, i)

\* The calls on key k allowed since the window of the stored counter opened.
AllowedInStoredWindow(k) ==
    {i \in DOMAIN log :
        /\ log[i].op = "check_rate_limit"
        /\ log[i].key = k
        /\ log[i].allowed
        /\ log[i].t >= redis[k].exp - 300}

\* C8: under concurrent callers no update of the counter is lost: in one
\* window at most 5 calls are allowed, and when no call is running the stored
\* counter is the number of calls allowed in the window.
C8_NoLostUpdate ==
    \A k \in RateKeys :
        (redis[k].present /\ redis[k].ttl) =>
            /\ Cardinality(AllowedInStoredWindow(k)) <= 5
            /\ IdleAll => redis[k].val = Cardinality(AllowedInStoredWindow(k))

\* C9: in every reachable state an existing counter key carries an expiry
\* (so a key that is being rejected is allowed again when the window ends).
C9_CounterAlwaysExpires ==
    \A k \in RateKeys : redis[k].present => redis[k].ttl

(***************************************************************************)
(* Settings (config.py) and the stateless primitives of AuthService.       *)
(***************************************************************************)
JWT_SECRET == "dev-secret-key"
JWT_ISSUER == "taskmanager"
ACCESS_TTL_MIN == 15
REFRESH_TTL_DAYS == 7
OTP_TTL_MIN == 10

\* timedelta(days = d) and timedelta(minutes = m), in seconds.
Days(d) == d * 86400
Minutes(m) == m * 60

\* bcrypt: the hash keeps the password it was made from and nothing readable;
\* the salt, which no claim reads, is left out.
hash_password(password) == [bcrypt |-> password]

verify_password(plain_password, hashed_password) ==
    hashed_password.bcrypt = plain_password

\* SHA-256 of the raw token: deterministic, and different tokens differ.
hash_token(token) == [sha256 |-> token]

\* jwt.encode of the claims with the expiry and the issuer added, signed
\* with the configured secret.
create_access_token(data) ==
    data @@ [exp |-> now + Minutes(ACCESS_TTL_MIN),
             iss |-> JWT_ISSUER,
             sig |-> JWT_SECRET]

\* The access token of a login completed at time 0, as clients still hold it.
AccessTokenFromStart(data) ==
    data @@ [exp |-> Minutes(ACCESS_TTL_MIN),
             iss |-> JWT_ISSUER,
             sig |-> JWT_SECRET]

\* jwt.decode with the secret and HS256: the claims of a token whose
\* signature matches and whose exp lies ahead; the issuer is not compared.
verify_token(token) ==
    IF token.sig = JWT_SECRET /\ token.exp > now
    THEN [k \in DOMAIN token \ {"sig"} |-> token[k]]
    ELSE None

\* secrets.token_urlsafe(32): 256 random bits, a value no earlier call
\* returned.  Raw tokens are numbered in the order they are drawn.
create_refresh_token == ids.raw + 1

(***************************************************************************)
(* Rows of the store.                                                      *)
(***************************************************************************)
OrganizationRow(id, name, subdomain) ==
    [id |-> id, name |-> name, subdomain |-> subdomain]

UserRow(id, email, password_hash) ==
    [id |-> id, email |-> email, password_hash |-> password_hash]

MembershipRow(user_id, org_id, role) ==
    [user_id |-> user_id, org_id |-> org_id, role |-> role]

\* A refresh token as the handlers create it: expires_at is REFRESH_TTL_DAYS
\* from now and revoked takes its default, False.
RefreshTokenRow(id, user_id, org_id, raw) ==
    [id |-> id, user_id |-> user_id, org_id |-> org_id,
     token_hash |-> hash_token(raw),
     expires_at |-> now + Days(REFRESH_TTL_DAYS),
     revoked |-> FALSE]

(***************************************************************************)
(* POST /auth/refresh.                                                     *)
(***************************************************************************)
MaxRefreshReqs == 3    \* refresh and logout requests started in a run
MaxRefreshTicks == 2   \* clock ticks of half the refresh TTL in a run

\* The raw tokens a client may present: the token of the first login, its
\* two successors under rotation, and a token that was never issued.
PresentedTokens == {0, 1, 2, 3}

\* create_refresh_token draws a fresh random value (secrets.token_urlsafe),
\* numbered here in order of issue: a client can present a value that was
\* issued, or the value 0 that never is, but not one yet to be drawn.
Presentable(token) == token <= ids.raw

StartRefresh(p, token) ==
    /\ CanStart(p)
    /\ Presentable(token)
    /\ Started({"refresh", "logout"}) < MaxRefreshReqs
    /\ procs' = [procs EXCEPT ![p] =
                    [op |-> "refresh", pc |-> "find_token", token |-> token]]
    /\ UNCHANGED <<now, mode, redis, log, dbVars, taskVars, wsVars>>

\* select(RefreshToken) by hash, unexpired and not revoked.
FindValidRefreshToken(token_hash) ==
    {r \in db.tokens :
        /\ r.token_hash = token_hash
        /\ r.expires_at > now
        /\ r.revoked = FALSE}

\* select(User, Membership) joined on the user, for the token's user and org.
FindUserMembership(user_id, org_id) ==
    {um \in db.users \X db.memberships :
        /\ um[1].id = um[2].user_id
        /\ um[1].id = user_id
        /\ um[2].org_id = org_id}

RefreshRequest(p) == [token |-> procs[p].token]

\* Lines 296-312: hash the token and look the record up; 401 without one.
RefreshFindToken(p) ==
    /\ At(p, "refresh", "find_token")
    /\ LET found == FindValidRefreshToken(hash_token(procs[p].token)) IN
        IF found = {}
        THEN Respond(p, ErrorResponse("refresh", RefreshRequest(p), 401,
                                      "Invalid refresh token"))
        ELSE /\ \E r \in found : Goto(p, "find_membership", [token_record |-> r])
             /\ UNCHANGED log
    /\ UNCHANGED <<now, mode, redis, dbVars, taskVars, wsVars>>

\* A mutant of RefreshFindMembership: the record is revoked before the
\* membership is looked up.
RefreshFindMembershipRevokesFirst(p) ==
    /\ At(p, "refresh", "find_membership")
    /\ LET found == FindUserMembership(procs[p].token_record.user_id,
                                       procs[p].token_record.org_id) IN
        IF found = {}
        THEN /\ Respond(p, ErrorResponse("refresh", RefreshRequest(p), 401,
                                         "User or membership not found"))
             /\ db' = [db EXCEPT !.tokens =
                        {IF r.id = procs[p].token_record.id
                         THEN [r EXCEPT !.revoked = TRUE] ELSE r : r \in @}]
             /\ UNCHANGED ids
        ELSE /\ \E um \in found :
                    Goto(p, "commit", [user |-> um[1], membership |-> um[2]])
             /\ UNCHANGED <<log, dbVars>>
    /\ UNCHANGED <<now, mode, redis, taskVars, wsVars>>

\* Lines 314-331: the user and the membership of the record's organization.
RefreshFindMembership(p) ==
    /\ At(p, "refresh", "find_membership")
    /\ LET found == FindUserMembership(procs[p].token_record.user_id,
                                       procs[p].token_record.org_id) IN
        IF found = {}
        THEN Respond(p, ErrorResponse("refresh", RefreshRequest(p), 401,
                                      "User or membership not found"))
        ELSE /\ \E um \in found :
                    Goto(p, "commit", [user |-> um[1], membership |-> um[2]])
             /\ UNCHANGED log
    /\ UNCHANGED <<now, mode, redis, dbVars, taskVars, wsVars>>

\* A mutant of RevokeToken: the presented record is left as it is.
RevokeNothing(tokens, id) == tokens

\* token_record.revoked = True, written at the commit:
\* UPDATE refresh_tokens SET revoked = true WHERE id = :id.
RevokeToken(tokens, id) ==
    {IF r.id = id THEN [r EXCEPT !.revoked = TRUE] ELSE r : r \in tokens}

\* A mutant of RefreshCommit: the pair is issued for the role "member"
\* whatever the membership says.
RefreshCommitAsMember(p) ==
    /\ At(p, "refresh", "commit")
    /\ LET f == procs[p]
           raw == create_refresh_token
           new == RefreshTokenRow(ids.tokens + 1, f.user.id,
                                  f.membership.org_id, raw)
           access == create_access_token(
                        [user_id |-> f.user.id,
                         org_id |-> f.membership.org_id,
                         role |-> "member"])
       IN
        /\ db' = [db EXCEPT
                    !.tokens = RevokeToken(@, f.token_record.id) \cup {new}]
        /\ ids' = [ids EXCEPT !.tokens = @ + 1, !.raw = raw]
        /\ Respond(p, TokenResponse("refresh", RefreshRequest(p), access, raw))
    /\ UNCHANGED <<now, mode, redis, taskVars, wsVars>>

\* Lines 333-357: revoke the record, insert the replacement, commit both and
\* return the new pair.
RefreshCommit(p) ==
    /\ At(p, "refresh", "commit")
    /\ LET f == procs[p]
           raw == create_refresh_token
           new == RefreshTokenRow(ids.tokens + 1, f.user.id,
                                  f.membership.org_id, raw)
           access == create_access_token(
                        [user_id |-> f.user.id,
                         org_id |-> f.membership.org_id,
                         role |-> f.membership.role])
       IN
        /\ db' = [db EXCEPT
                    !.tokens = RevokeToken(@, f.token_record.id) \cup {new}]
        /\ ids' = [ids EXCEPT !.tokens = @ + 1, !.raw = raw]
        /\ Respond(p, TokenResponse("refresh", RefreshRequest(p), access, raw))
    /\ UNCHANGED <<now, mode, redis, taskVars, wsVars>>

(***************************************************************************)
(* POST /auth/logout.                                                      *)
(***************************************************************************)
StartLogout(p, token) ==
    /\ CanStart(p)
    /\ Presentable(token)
    /\ Started({"refresh", "logout"}) < MaxRefreshReqs
    /\ procs' = [procs EXCEPT ![p] =
                    [op |-> "logout", pc |-> "find_token", token |-> token]]
    /\ UNCHANGED <<now, mode, redis, log, dbVars, taskVars, wsVars>>

LogoutResponse(p) ==
    [op |-> "logout", status |-> 200, t |-> now, token |-> procs[p].token,
     message |-> "Logged out successfully"]

\* Lines 365-371: look the record up by hash alone.
LogoutFind(p) ==
    /\ At(p, "logout", "find_token")
    /\ LET found == {r \in db.tokens :
                        r.token_hash = hash_token(procs[p].token)} IN
        IF found = {}
        THEN Respond(p, LogoutResponse(p))
        ELSE /\ \E r \in found : Goto(p, "commit", [token_record |-> r])
             /\ UNCHANGED log
    /\ UNCHANGED <<now, mode, redis, dbVars, taskVars, wsVars>>

\* A mutant of LogoutCommit: the answer is given without the commit.
LogoutCommitSkipped(p) ==
    /\ At(p, "logout", "commit")
    /\ Respond(p, LogoutResponse(p))
    /\ UNCHANGED <<now, mode, redis, dbVars, taskVars, wsVars>>

\* A mutant of LogoutCommit: every refresh token of the record's user is
\* revoked.
LogoutCommitRevokesAllOfUser(p) ==
    /\ At(p, "logout", "commit")
    /\ db' = [db EXCEPT !.tokens =
                {IF r.user_id = procs[p].token_record.user_id
                 THEN [r EXCEPT !.revoked = TRUE] ELSE r : r \in @}]
    /\ Respond(p, LogoutResponse(p))
    /\ UNCHANGED <<now, mode, redis, ids, taskVars, wsVars>>

\* Lines 373-377: mark it revoked and commit.
LogoutCommit(p) ==
    /\ At(p, "logout", "commit")
    /\ db' = [db EXCEPT !.tokens = RevokeToken(@, procs[p].token_record.id)]
    /\ Respond(p, LogoutResponse(p))
    /\ UNCHANGED <<now, mode, redis, ids, taskVars, wsVars>>

\* Half the refresh TTL passes.
RefreshTick ==
    /\ now + Days(REFRESH_TTL_DAYS) \div 2
            <= MaxRefreshTicks * (Days(REFRESH_TTL_DAYS) \div 2)
    /\ mode = "seq" => IdleAll
    /\ now' = now + Days(REFRESH_TTL_DAYS) \div 2
    /\ UNCHANGED <<mode, redis, procs, log, dbVars, taskVars, wsVars>>

\* The store after register("Acme", "acme", "a@x.com", "pw") at time 0: the
\* organization, its admin and the refresh token (raw token 1) returned.
StoreAfterRegister ==
    /\ db = [EmptyDb EXCEPT
                !.orgs = {OrganizationRow(1, "Acme", "acme")},
                !.users = {UserRow(1, "a@x.com", hash_password("pw"))},
                !.memberships = {MembershipRow(1, 1, "admin")},
                !.tokens = {RefreshTokenRow(1, 1, 1, 1)}]
    /\ ids = [orgs |-> 1, users |-> 1, otps |-> 0, tokens |-> 1, tasks |-> 0,
              raw |-> 1]

RefreshNext ==
    \/ \E p \in Procs, token \in PresentedTokens : StartRefresh(p, token)
    \/ \E p \in Procs : RefreshFindToken(p)
    \/ \E p \in Procs : RefreshFindMembership(p)
    \/ \E p \in Procs : RefreshCommit(p)
    \/ \E p \in Procs, token \in PresentedTokens : StartLogout(p, token)
    \/ \E p \in Procs : LogoutFind(p)
    \/ \E p \in Procs : LogoutCommit(p)
    \/ RefreshTick

InitRefresh == InitCommon /\ StoreAfterRegister /\ mode = "conc"

InitRefreshSeq == InitCommon /\ StoreAfterRegister /\ mode = "seq"

\* Refresh and logout requests that interleave.
SpecRefresh == InitRefresh /\ [][RefreshNext]_vars

\* Refresh and logout requests made one after the other.
SpecRefreshSeq == InitRefreshSeq /\ [][RefreshNext]_vars

(***************************************************************************)
(* The claims on refresh rotation.                                         *)
(***************************************************************************)
IsRefresh(i) == log[i].op = "refresh"

\* Response i returned raw token T as its new refresh token.
Issues(i, T) == IsRefresh(i) /\ log[i].status = 200 /\ log[i].refresh_token = T

\* The position in the log at which T was issued: 0 for token 1, which the
\* register before the run returned; -1 when T has not been issued before j.
IssuedAt(T, j) ==
    IF T = 1 THEN 0
    ELSE IF \E i \in 1..(j - 1) : Issues(i, T)
         THEN CHOOSE i \in 1..(j - 1) : Issues(i, T)
         ELSE -1

IssueTime(T, j) == IF IssuedAt(T, j) = 0 THEN 0 ELSE log[IssuedAt(T, j)].t

\* T is live when request j presents it: issued, not yet expired, and
\* neither exchanged by a refresh nor logged out since.
LiveAt(T, j) ==
    /\ IssuedAt(T, j) >= 0
    /\ log[j].t < IssueTime(T, j) + 7 * 86400
    /\ ~\E k \in (IssuedAt(T, j) + 1)..(j - 1) :
            /\ log[k].token = T
            /\ \/ log[k].op = "logout"
               \/ IsRefresh(k) /\ log[k].status = 200

C2_AtMostOneRefreshSucceeds ==
    \A i, j \in DOMAIN log :
        (/\ i < j
         /\ IsRefresh(i) /\ IsRefresh(j)
         /\ log[i].token = log[j].token
         /\ log[i].status = 200) => log[j].status # 200

(***************************************************************************)
(* POST /auth/register.                                                    *)
(*                                                                         *)
(* db.flush() sends the pending INSERT inside the session's transaction:   *)
(* the row takes the next id of its sequence, and a unique index rejects   *)
(* it (IntegrityError, which no handler catches: 500) when a committed row *)
(* holds the same key.  While another open transaction holds an insert    *)
(* of the same key, not yet committed, the INSERT waits for it.  The rows  *)
(* a session has flushed are in its frame (org, user) until its commit; a  *)
(* session that ends without a commit leaves nothing.                      *)
(***************************************************************************)
MaxRegisterReqs == 3   \* register requests started in a run

\* The request bodies: two organizations, each with its own founder, and
\* the two bodies that collide with them on the subdomain or on the email.
RegisterBodies ==
    {[organization_name |-> "Acme", subdomain |-> "acme",
      email |-> "a@x.com", password |-> "pw"],
     [organization_name |-> "Beta", subdomain |-> "beta",
      email |-> "b@x.com", password |-> "pw"],
     [organization_name |-> "Acme Two", subdomain |-> "acme",
      email |-> "b@x.com", password |-> "pw"],
     [organization_name |-> "Beta Two", subdomain |-> "beta",
      email |-> "a@x.com", password |-> "pw"]}

StartRegister(p, request) ==
    /\ CanStart(p)
    /\ Started({"register"}) < MaxRegisterReqs
    /\ procs' = [procs EXCEPT ![p] =
                    [op |-> "register", pc |-> "check_subdomain",
                     request |-> request]]
    /\ UNCHANGED <<now, mode, redis, log, dbVars, taskVars, wsVars>>

RegisterRequest(p) ==
    [subdomain |-> procs[p].request.subdomain,
     email |-> procs[p].request.email]

\* select(Organization).where(Organization.subdomain == subdomain)
OrgsBySubdomain(subdomain) == {o \in db.orgs : o.subdomain = subdomain}

\* select(User).where(User.email == email)
UsersByEmail(email) == {u \in db.users : u.email = email}

\* A mutant of RegisterCheckEmail: the organization is created and committed
\* as soon as its subdomain is found free, before the email is looked up.
RegisterCheckEmailAfterOrgCommit(p) ==
    /\ At(p, "register", "check_email")
    /\ db' = [db EXCEPT !.orgs = @ \cup
                {OrganizationRow(ids.orgs + 1,
                                 procs[p].request.organization_name,
                                 procs[p].request.subdomain)}]
    /\ ids' = [ids EXCEPT !.orgs = @ + 1]
    /\ IF UsersByEmail(procs[p].request.email) # {}
       THEN Respond(p, ErrorResponse("register", RegisterRequest(p), 400,
                                     "Email already registered"))
       ELSE Goto(p, "flush_org", <<>>) /\ UNCHANGED log
    /\ UNCHANGED <<now, mode, redis, taskVars, wsVars>>

\* Lines 28-36: 400 when an organization has the subdomain.
RegisterCheckSubdomain(p) ==
    /\ At(p, "register", "check_subdomain")
    /\ IF OrgsBySubdomain(procs[p].request.subdomain) # {}
       THEN Respond(p, ErrorResponse("register", RegisterRequest(p), 400,
                                     "Subdomain already exists"))
       ELSE Goto(p, "check_email", <<>>) /\ UNCHANGED log
    /\ UNCHANGED <<now, mode, redis, dbVars, taskVars, wsVars>>

\* Lines 38-46: 400 when a user has the email.
RegisterCheckEmail(p) ==
    /\ At(p, "register", "check_email")
    /\ IF UsersByEmail(procs[p].request.email) # {}
       THEN Respond(p, ErrorResponse("register", RegisterRequest(p), 400,
                                     "Email already registered"))
       ELSE Goto(p, "flush_org", <<>>) /\ UNCHANGED log
    /\ UNCHANGED <<now, mode, redis, dbVars, taskVars, wsVars>>

\* Another open transaction holds an uncommitted organization with this
\* subdomain, or an uncommitted user with this email.
OrgInsertPending(p, subdomain) ==
    \E q \in Procs \ {p} :
        /\ procs[q].op = "register"
        /\ procs[q].pc \in {"flush_user", "commit_membership"}
        /\ procs[q].org.subdomain = subdomain

UserInsertPending(p, email) ==
    \E q \in Procs \ {p} :
        \/ /\ procs[q].op = "register"
           /\ procs[q].pc = "commit_membership"
           /\ procs[q].user.email = email
        \/ /\ procs[q].op = "google_login"
           /\ procs[q].pc \in {"find_membership", "commit"}
           /\ procs[q].new_user
           /\ procs[q].user.email = email

\* A mutant of RegisterFlushOrg: the flush is a commit.
RegisterFlushOrgCommits(p) ==
    /\ At(p, "register", "flush_org")
    /\ ~OrgInsertPending(p, procs[p].request.subdomain)
    /\ ids' = [ids EXCEPT !.orgs = @ + 1]
    /\ IF OrgsBySubdomain(procs[p].request.subdomain) # {}
       THEN /\ Respond(p, ErrorResponse("register", RegisterRequest(p), 500,
                                        "IntegrityError"))
            /\ UNCHANGED db
       ELSE LET org == OrganizationRow(ids.orgs + 1,
                                       procs[p].request.organization_name,
                                       procs[p].request.subdomain)
            IN  /\ Goto(p, "flush_user", [org |-> org])
                /\ db' = [db EXCEPT !.orgs = @ \cup {org}]
                /\ UNCHANGED log
    /\ UNCHANGED <<now, mode, redis, taskVars, wsVars>>

\* Lines 48-54: INSERT the organization (unique subdomain).
RegisterFlushOrg(p) ==
    /\ At(p, "register", "flush_org")
    /\ ~OrgInsertPending(p, procs[p].request.subdomain)
    /\ ids' = [ids EXCEPT !.orgs = @ + 1]
    /\ IF OrgsBySubdomain(procs[p].request.subdomain) # {}
       THEN Respond(p, ErrorResponse("register", RegisterRequest(p), 500,
                                     "IntegrityError"))
       ELSE /\ Goto(p, "flush_user",
                    [org |-> OrganizationRow(ids.orgs + 1,
                                procs[p].request.organization_name,
                                procs[p].request.subdomain)])
            /\ UNCHANGED log
    /\ UNCHANGED <<now, mode, redis, db, taskVars, wsVars>>

\* Lines 56-62: INSERT the user (unique email) with the password's hash.
RegisterFlushUser(p) ==
    /\ At(p, "register", "flush_user")
    /\ ~UserInsertPending(p, procs[p].request.email)
    /\ ids' = [ids EXCEPT !.users = @ + 1]
    /\ IF UsersByEmail(procs[p].request.email) # {}
       THEN Respond(p, ErrorResponse("register", RegisterRequest(p), 500,
                                     "IntegrityError"))
       ELSE /\ Goto(p, "commit_membership",
                    [user |-> UserRow(ids.users + 1, procs[p].request.email,
                                hash_password(procs[p].request.password))])
            /\ UNCHANGED log
    /\ UNCHANGED <<now, mode, redis, db, taskVars, wsVars>>

\* A mutant of RegisterCommitMembership: the founder joins as a member.
RegisterCommitMembershipAsMember(p) ==
    /\ At(p, "register", "commit_membership")
    /\ db' = [db EXCEPT
                !.orgs = @ \cup {procs[p].org},
                !.users = @ \cup {procs[p].user},
                !.memberships = @ \cup
                    {MembershipRow(procs[p].user.id, procs[p].org.id, "member")}]
    /\ Goto(p, "commit_token", <<>>)
    /\ UNCHANGED <<now, mode, redis, ids, log, taskVars, wsVars>>

\* Lines 64-71: add the admin membership and commit the three rows.
RegisterCommitMembership(p) ==
    /\ At(p, "register", "commit_membership")
    /\ db' = [db EXCEPT
                !.orgs = @ \cup {procs[p].org},
                !.users = @ \cup {procs[p].user},
                !.memberships = @ \cup
                    {MembershipRow(procs[p].user.id, procs[p].org.id, "admin")}]
    /\ Goto(p, "commit_token", <<>>)
    /\ UNCHANGED <<now, mode, redis, ids, log, taskVars, wsVars>>

\* Lines 73-94: issue the pair, commit the refresh token and return.
RegisterCommitToken(p) ==
    /\ At(p, "register", "commit_token")
    /\ LET f == procs[p]
           raw == create_refresh_token
           access == create_access_token(
                        [user_id |-> f.user.id, org_id |-> f.org.id,
                         role |-> "admin"])
       IN
        /\ db' = [db EXCEPT !.tokens = @ \cup
                    {RefreshTokenRow(ids.tokens + 1, f.user.id, f.org.id, raw)}]
        /\ ids' = [ids EXCEPT !.tokens = @ + 1, !.raw = raw]
        /\ Respond(p, TokenResponse("register", RegisterRequest(p), access, raw))
    /\ UNCHANGED <<now, mode, redis, taskVars, wsVars>>

RegisterNext ==
    \/ \E p \in Procs, request \in RegisterBodies : StartRegister(p, request)
    \/ \E p \in Procs : RegisterCheckSubdomain(p)
    \/ \E p \in Procs : RegisterCheckEmail(p)
    \/ \E p \in Procs : RegisterFlushOrg(p)
    \/ \E p \in Procs : RegisterFlushUser(p)
    \/ \E p \in Procs : RegisterCommitMembership(p)
    \/ \E p \in Procs : RegisterCommitToken(p)

InitRegister == InitCommon /\ InitEmptyStore /\ mode = "conc"

\* Register requests that interleave, on an empty store.
SpecRegister == InitRegister /\ [][RegisterNext]_vars

(***************************************************************************)
(* The claims on register.                                                 *)
(***************************************************************************)
\* The register call in slot p takes a step.
RegisterSteps(p) == procs[p].op = "register" /\ procs'[p] # procs[p]

\* What the call in slot p collides with when it checks: an organization
\* with its subdomain, or a user with its email.
RegisterCollides(p) ==
    \/ /\ procs[p].pc = "check_subdomain"
       /\ \E o \in db.orgs : o.subdomain = procs[p].request.subdomain
    \/ /\ procs[p].pc = "check_email"
       /\ \E u \in db.users : u.email = procs[p].request.email

\* The call in slot p ends with the given status.
RegisterEnds(p, statuses) ==
    /\ procs'[p] = Idle
    /\ Len(log') = Len(log) + 1
    /\ log'[Len(log')].op = "register"
    /\ log'[Len(log')].subdomain = procs[p].request.subdomain
    /\ log'[Len(log')].email = procs[p].request.email
    /\ log'[Len(log')].status \in statuses

\* C10: a register call that finds its subdomain or its email taken ends with
\* 400, and a register call that fails (400, or 500 when a concurrent call
\* took the key after the check) has committed nothing: neither its failing
\* step nor any step before it changes the organizations, users, memberships
\* or refresh tokens.
C10_RegisterCollisionCommitsNothing ==
    [][\A p \in Procs :
        RegisterSteps(p) =>
            /\ procs[p].pc \in {"check_subdomain", "check_email"} =>
                /\ RegisterCollides(p) <=> RegisterEnds(p, {400})
                /\ db' = db
            /\ RegisterEnds(p, {400, 500}) =>
                /\ db' = db
                /\ procs[p].pc \in {"check_subdomain", "check_email",
                                    "flush_org", "flush_user"}
            /\ procs[p].pc \in {"flush_org", "flush_user"} => db' = db]_vars

\* C10's case: a register call was refused with 400 while an organization
\* and a user exist.
C10_Witness ==
    /\ db.orgs # {} /\ db.users # {}
    /\ \E i, j \in DOMAIN log :
        /\ log[i].op = "register" /\ log[i].status = 400
        /\ log[i].detail = "Subdomain already exists"
        /\ log[j].op = "register" /\ log[j].status = 400
        /\ log[j].detail = "Email already registered"

\* The register call in slot p commits its organization, user and membership:
\* exactly one row is added to each table, the membership links the new user
\* to the new organization as admin, and the rows carry the request's values.
RegisterCreatesOrgUserAdmin(p) ==
    \E o \in db'.orgs \ db.orgs, u \in db'.users \ db.users :
        /\ db'.orgs = db.orgs \cup {o}
        /\ db'.users = db.users \cup {u}
        /\ db'.memberships =
                db.memberships \cup {MembershipRow(u.id, o.id, "admin")}
        /\ MembershipRow(u.id, o.id, "admin") \notin db.memberships
        /\ o.name = procs[p].request.organization_name
        /\ o.subdomain = procs[p].request.subdomain
        /\ u.email = procs[p].request.email
        /\ u.password_hash # None
        /\ verify_password(procs[p].request.password, u.password_hash)
        /\ procs'[p].org = o /\ procs'[p].user = u
        /\ db'.tokens = db.tokens /\ db'.otps = db.otps /\ db'.tasks = db.tasks

\* The register call in slot p returns: 200 with an access token that
\* verifies and carries (its user, its organization, admin), and a refresh
\* token whose record, the one row added, is unrevoked, unexpired and bound
\* to the same user and organization.
RegisterReturnsPair(p) ==
    /\ RegisterEnds(p, {200})
    /\ LET r == log'[Len(log')]
           claims == verify_token(r.access_token)
       IN
        /\ claims # None
        /\ claims.user_id = procs[p].user.id
        /\ claims.org_id = procs[p].org.id
        /\ claims.role = "admin"
        /\ \E row \in db'.tokens \ db.tokens :
            /\ db'.tokens = db.tokens \cup {row}
            /\ row.token_hash = hash_token(r.refresh_token)
            /\ row.user_id = procs[p].user.id
            /\ row.org_id = procs[p].org.id
            /\ ~row.revoked
            /\ row.expires_at > now
        /\ \A row \in db.tokens : row.token_hash # hash_token(r.refresh_token)
    /\ db'.orgs = db.orgs /\ db'.users = db.users
    /\ db'.memberships = db.memberships
    /\ db'.otps = db.otps /\ db'.tasks = db.tasks

\* C12: a register call succeeds only through the step that adds exactly one
\* organization, one user and the admin membership linking them, followed by
\* the step that returns an access token for (that user, that organization,
\* admin) and a refresh token with a live record bound to the same pair; no
\* other step of it changes the store, and no OTP is created.
C12_RegisterCreatesAndIssues ==
    [][\A p \in Procs :
        RegisterSteps(p) =>
            /\ procs[p].pc = "commit_membership" =>
                RegisterCreatesOrgUserAdmin(p) /\ procs'[p].pc = "commit_token"
            /\ procs[p].pc = "commit_token" => RegisterReturnsPair(p)
            /\ procs[p].pc \notin {"commit_membership", "commit_token"} =>
                db' = db /\ ~RegisterEnds(p, {200})]_vars

\* C12's case: two register calls succeeded, each with its own organization,
\* user and refresh token.
C12_Witness ==
    /\ Cardinality(db.orgs) = 2 /\ Cardinality(db.users) = 2
    /\ Cardinality(db.tokens) = 2 /\ db.otps = {}
    /\ \E i, j \in DOMAIN log :
        /\ i # j
        /\ log[i].op = "register" /\ log[i].status = 200
        /\ log[j].op = "register" /\ log[j].status = 200


(***************************************************************************)
(* Register with crashes: the worker serving a request dies between two    *)
(* awaits; its session is never committed and the database rolls the open  *)
(* transaction back.                                                       *)
(***************************************************************************)
MaxCrashes == 1   \* requests whose worker dies in a run

\* The request in slot p dies where it stands: no response is sent (status
\* 0 in the history), and nothing of its open transaction is kept.
Crash(p) ==
    /\ procs[p] # Idle
    /\ Cardinality({i \in DOMAIN log : log[i].op = "crash"}) < MaxCrashes
    /\ log' = Append(log, [op |-> "crash", status |-> 0, t |-> now,
                           of |-> procs[p].op, pc |-> procs[p].pc])
    /\ procs' = [procs EXCEPT ![p] = Idle]
    /\ UNCHANGED <<now, mode, redis, dbVars, taskVars, wsVars>>

RegisterCrashNext ==
    \/ RegisterNext
    \/ \E p \in Procs : Crash(p)

\* Register requests that interleave and may die between their steps.
SpecRegisterCrash == InitRegister /\ [][RegisterCrashNext]_vars

\* C11: in every committed state every organization has an admin membership
\* and every user has a membership, whatever register calls ran together,
\* failed on a unique index or died between their steps.
C11_RegisterAtomic ==
    /\ \A o \in db.orgs :
        \E m \in db.memberships : m.org_id = o.id /\ m.role = "admin"
    /\ \A u \in db.users :
        \E m \in db.memberships : m.user_id = u.id

\* C11's case: one register call died after it had flushed its organization,
\* another failed on a unique index, and a third committed its organization.
C11_Witness ==
    /\ db.orgs # {} /\ db.users # {}
    /\ \E i, j \in DOMAIN log :
        /\ log[i].op = "crash" /\ log[i].of = "register"
        /\ log[i].pc \in {"flush_user", "commit_membership"}
        /\ log[j].op = "register" /\ log[j].status = 500


(***************************************************************************)
(* POST /auth/login and POST /auth/verify-otp.                             *)
(***************************************************************************)
MaxOtpReqs == 3    \* login and verify-otp requests started in a run
MaxOtpTicks == 2   \* clock ticks of half the OTP lifetime in a run

\* The passwords a login presents: the registered one and a wrong one.
LoginPasswords == {"pw", "bad"}

\* generate_otp draws one of 10^6 six-digit strings; two of them stand for
\* the range, so that two logins can draw the same code.
OtpCodes == {"000001", "000002"}

\* A mutant of OtpRow: the OTP is stored as consumed already.
OtpRowConsumed(id, user_id, code) ==
    [id |-> id, user_id |-> user_id, code |-> code,
     expires_at |-> now + Minutes(OTP_TTL_MIN), consumed |-> now]

\* An OTP as login stores it: expires OTP_TTL_MIN from now, consumed NULL
\* (written -1).
OtpRow(id, user_id, code) ==
    [id |-> id, user_id |-> user_id, code |-> code,
     expires_at |-> now + Minutes(OTP_TTL_MIN), consumed |-> -1]

StartLogin(p, email, password) ==
    /\ CanStart(p)
    /\ Started({"login", "verify_otp"}) < MaxOtpReqs
    /\ procs' = [procs EXCEPT ![p] =
                    [op |-> "login", pc |-> "rl_get", key |-> rate_key(email),
                     email |-> email, password |-> password]]
    /\ UNCHANGED <<now, mode, redis, log, dbVars, taskVars, wsVars>>

\* A mutant of LoginFindUser: an unknown email gets an answer of its own.
LoginFindUserRevealing(p) ==
    /\ At(p, "login", "find_user")
    /\ LET found == UsersByEmail(procs[p].email) IN
        IF found = {}
        THEN Respond(p, ErrorResponse("login", LoginRequest(p), 404,
                                      "User not found"))
        ELSE IF \E u \in found :
                \/ u.password_hash = None
                \/ ~verify_password(procs[p].password, u.password_hash)
        THEN Respond(p, ErrorResponse("login", LoginRequest(p), 401,
                                      "Invalid credentials"))
        ELSE /\ Goto(p, "commit_otp", [user |-> CHOOSE u \in found : TRUE])
             /\ UNCHANGED log
    /\ UNCHANGED <<now, mode, redis, dbVars, taskVars, wsVars>>

\* A mutant of LoginFindUser: the password is not compared.
LoginFindUserAnyPassword(p) ==
    /\ At(p, "login", "find_user")
    /\ LET found == UsersByEmail(procs[p].email) IN
        IF found = {}
        THEN Respond(p, ErrorResponse("login", LoginRequest(p), 401,
                                      "Invalid credentials"))
        ELSE /\ Goto(p, "commit_otp", [user |-> CHOOSE u \in found : TRUE])
             /\ UNCHANGED log
    /\ UNCHANGED <<now, mode, redis, dbVars, taskVars, wsVars>>

\* select(User).where(User.email == request.email), then the 401 for an
\* unknown user, a user without a password, or a wrong password.
LoginFindUser(p) ==
    /\ At(p, "login", "find_user")
    /\ LET found == UsersByEmail(procs[p].email) IN
        IF \/ found = {}
           \/ \E u \in found :
                \/ u.password_hash = None
                \/ ~verify_password(procs[p].password, u.password_hash)
        THEN Respond(p, ErrorResponse("login", LoginRequest(p), 401,
                                      "Invalid credentials"))
        ELSE /\ Goto(p, "commit_otp", [user |-> CHOOSE u \in found : TRUE])
             /\ UNCHANGED log
    /\ UNCHANGED <<now, mode, redis, dbVars, taskVars, wsVars>>

\* The OTP is generated, stored and committed; the code is printed for the
\* user and the response says an OTP is required.  otp_id names the row.
LoginCommitOtp(p) ==
    /\ At(p, "login", "commit_otp")
    /\ \E otp_code \in OtpCodes :
        LET otp == OtpRow(ids.otps + 1, procs[p].user.id, otp_code) IN
        /\ db' = [db EXCEPT !.otps = @ \cup {otp}]
        /\ ids' = [ids EXCEPT !.otps = @ + 1]
        /\ Respond(p, [op |-> "login", status |-> 200, t |-> now,
                       otp_required |-> TRUE, otp_code |-> otp_code,
                       otp_id |-> otp.id] @@ LoginRequest(p))
    /\ UNCHANGED <<now, mode, redis, taskVars, wsVars>>

StartVerifyOtp(p, email, code) ==
    /\ CanStart(p)
    /\ Started({"login", "verify_otp"}) < MaxOtpReqs
    /\ procs' = [procs EXCEPT ![p] =
                    [op |-> "verify_otp", pc |-> "find_user",
                     email |-> email, code |-> code]]
    /\ UNCHANGED <<now, mode, redis, log, dbVars, taskVars, wsVars>>

VerifyOtpRequest(p) == [email |-> procs[p].email, code |-> procs[p].code]

VerifyFindUser(p) ==
    /\ At(p, "verify_otp", "find_user")
    /\ LET found == UsersByEmail(procs[p].email) IN
        IF found = {}
        THEN Respond(p, ErrorResponse("verify_otp", VerifyOtpRequest(p), 401,
                                      "Invalid credentials"))
        ELSE /\ Goto(p, "find_otp", [user |-> CHOOSE u \in found : TRUE])
             /\ UNCHANGED log
    /\ UNCHANGED <<now, mode, redis, dbVars, taskVars, wsVars>>

\* The same query without its condition on consumed.
FindOtpIgnoringConsumed(user_id, code) ==
    {o \in db.otps :
        /\ o.user_id = user_id
        /\ o.code = code
        /\ o.expires_at > now}

\* The committed OTPs of the user with this code, unexpired and unconsumed.
FindValidOtp(user_id, code) ==
    {o \in db.otps :
        /\ o.user_id = user_id
        /\ o.code = code
        /\ o.expires_at > now
        /\ o.consumed = -1}

\* scalar_one_or_none: no row is the 401, several rows raise
\* MultipleResultsFound (500); one row is marked consumed in the session.
VerifyFindOtp(p) ==
    /\ At(p, "verify_otp", "find_otp")
    /\ LET found == FindValidOtp(procs[p].user.id, procs[p].code) IN
        IF found = {}
        THEN Respond(p, ErrorResponse("verify_otp", VerifyOtpRequest(p), 401,
                                      "Invalid or expired OTP"))
        ELSE IF Cardinality(found) > 1
        THEN Respond(p, ErrorResponse("verify_otp", VerifyOtpRequest(p), 500,
                                      "MultipleResultsFound"))
        ELSE /\ Goto(p, "find_membership",
                     [otp |-> CHOOSE o \in found : TRUE, consumed |-> now])
             /\ UNCHANGED log
    /\ UNCHANGED <<now, mode, redis, dbVars, taskVars, wsVars>>

\* Another open transaction has flushed an UPDATE of this OTP row and holds
\* its row lock.
OtpUpdatePending(p, otp_id) ==
    \E q \in Procs \ {p} :
        At(q, "verify_otp", "commit") /\ procs[q].otp.id = otp_id

\* A mutant of VerifyFindMembership: the session is committed when the
\* handler leaves, so the flushed consumed mark outlives the 400.
VerifyFindMembershipKeepsMark(p) ==
    /\ At(p, "verify_otp", "find_membership")
    /\ ~OtpUpdatePending(p, procs[p].otp.id)
    /\ LET found == {m \in db.memberships : m.user_id = procs[p].user.id} IN
        IF found = {}
        THEN /\ Respond(p, ErrorResponse("verify_otp", VerifyOtpRequest(p), 400,
                                         "User has no organization membership"))
             /\ db' = [db EXCEPT
                        !.otps = {IF o.id = procs[p].otp.id
                                  THEN [o EXCEPT !.consumed = procs[p].consumed]
                                  ELSE o : o \in @}]
        ELSE IF Cardinality(found) > 1
        THEN /\ Respond(p, ErrorResponse("verify_otp", VerifyOtpRequest(p), 500,
                                         "MultipleResultsFound"))
             /\ UNCHANGED db
        ELSE /\ Goto(p, "commit", [membership |-> CHOOSE m \in found : TRUE])
             /\ UNCHANGED <<log, db>>
    /\ UNCHANGED <<now, mode, redis, ids, taskVars, wsVars>>

\* The membership query flushes the pending UPDATE of the OTP first (the
\* session's autoflush) and waits for the row's lock; no membership is the
\* 400, several raise MultipleResultsFound.  An exception closes the session
\* without commit, which drops the UPDATE.
VerifyFindMembership(p) ==
    /\ At(p, "verify_otp", "find_membership")
    /\ ~OtpUpdatePending(p, procs[p].otp.id)
    /\ LET found == {m \in db.memberships : m.user_id = procs[p].user.id} IN
        IF found = {}
        THEN Respond(p, ErrorResponse("verify_otp", VerifyOtpRequest(p), 400,
                                      "User has no organization membership"))
        ELSE IF Cardinality(found) > 1
        THEN Respond(p, ErrorResponse("verify_otp", VerifyOtpRequest(p), 500,
                                      "MultipleResultsFound"))
        ELSE /\ Goto(p, "commit", [membership |-> CHOOSE m \in found : TRUE])
             /\ UNCHANGED log
    /\ UNCHANGED <<now, mode, redis, dbVars, taskVars, wsVars>>

\* A mutant of VerifyCommit: a successful verification deletes the email's
\* counter of login attempts.
VerifyCommitResetsCounter(p) ==
    /\ At(p, "verify_otp", "commit")
    /\ LET f == procs[p]
           raw == create_refresh_token
           new == RefreshTokenRow(ids.tokens + 1, f.user.id,
                                  f.membership.org_id, raw)
           access == create_access_token(
                        [user_id |-> f.user.id,
                         org_id |-> f.membership.org_id,
                         role |-> f.membership.role])
       IN
        /\ db' = [db EXCEPT
                    !.otps = {IF o.id = f.otp.id
                              THEN [o EXCEPT !.consumed = f.consumed]
                              ELSE o : o \in @},
                    !.tokens = @ \cup {new}]
        /\ ids' = [ids EXCEPT !.tokens = @ + 1, !.raw = raw]
        /\ redis' = [redis EXCEPT ![rate_key(f.email)] = NoEntry]
        /\ Respond(p, [otp_id |-> f.otp.id]
                        @@ TokenResponse("verify_otp", VerifyOtpRequest(p),
                                         access, raw))
    /\ UNCHANGED <<now, mode, taskVars, wsVars>>

\* The tokens are created, the refresh token row is added and the commit
\* writes it together with the OTP's consumed time.
VerifyCommit(p) ==
    /\ At(p, "verify_otp", "commit")
    /\ LET f == procs[p]
           raw == create_refresh_token
           new == RefreshTokenRow(ids.tokens + 1, f.user.id,
                                  f.membership.org_id, raw)
           access == create_access_token(
                        [user_id |-> f.user.id,
                         org_id |-> f.membership.org_id,
                         role |-> f.membership.role])
       IN
        /\ db' = [db EXCEPT
                    !.otps = {IF o.id = f.otp.id
                              THEN [o EXCEPT !.consumed = f.consumed]
                              ELSE o : o \in @},
                    !.tokens = @ \cup {new}]
        /\ ids' = [ids EXCEPT !.tokens = @ + 1, !.raw = raw]
        /\ Respond(p, [otp_id |-> f.otp.id]
                        @@ TokenResponse("verify_otp", VerifyOtpRequest(p),
                                         access, raw))
    /\ UNCHANGED <<now, mode, redis, taskVars, wsVars>>

\* Half an OTP lifetime passes; expired rate-limit keys disappear.
OtpTick ==
    /\ now + Minutes(OTP_TTL_MIN) \div 2
            <= MaxOtpTicks * (Minutes(OTP_TTL_MIN) \div 2)
    /\ mode = "seq" => IdleAll
    /\ now' = now + Minutes(OTP_TTL_MIN) \div 2
    /\ redis' = RedisExpire(redis, now')
    /\ UNCHANGED <<mode, procs, log, dbVars, taskVars, wsVars>>

OtpNext ==
    \/ \E p \in Procs, email \in LoginEmails, password \in LoginPasswords :
            StartLogin(p, email, password)
    \/ \E p \in Procs : RateGet(p)
    \/ \E p \in Procs : RateWrite(p)
    \/ \E p \in Procs : LoginFindUser(p)
    \/ \E p \in Procs : LoginCommitOtp(p)
    \/ \E p \in Procs, email \in LoginEmails, code \in OtpCodes :
            StartVerifyOtp(p, email, code)
    \/ \E p \in Procs : VerifyFindUser(p)
    \/ \E p \in Procs : VerifyFindOtp(p)
    \/ \E p \in Procs : VerifyFindMembership(p)
    \/ \E p \in Procs : VerifyCommit(p)
    \/ OtpTick

InitOtp == InitCommon /\ StoreAfterRegister /\ mode = "conc"

InitOtpSeq == InitCommon /\ StoreAfterRegister /\ mode = "seq"

\* Login and verify-otp calls that interleave at every await.
SpecOtp == InitOtp /\ [][OtpNext]_vars

\* Login and verify-otp calls served one at a time.
SpecOtpSeq == InitOtpSeq /\ [][OtpNext]_vars

(***************************************************************************)
(* Claims about the OTP flow.                                              *)
(***************************************************************************)
\* Response i is a login that stored an OTP.
Stored(i) == log[i].op = "login" /\ log[i].status = 200

\* Response i answers a verify-otp call.
IsVerify(i) == log[i].op = "verify_otp"

\* Response i is a verify-otp that issued a token pair.
Verified(i) == IsVerify(i) /\ log[i].status = 200

\* Login i stored the code that verify-otp call j presents for its user.
StoredFor(i, j) ==
    /\ Stored(i)
    /\ log[i].email = log[j].email
    /\ log[i].otp_code = log[j].code

\* The OTP stored by login k is unexpired and unconsumed when call j runs.
Outstanding(k, j) ==
    /\ log[j].t < log[k].t + Minutes(OTP_TTL_MIN)
    /\ ~\E m \in 1..(j - 1) : Verified(m) /\ log[m].otp_id = log[k].otp_id

\* C5: with calls served one at a time, a stored OTP verifies exactly once:
\* the first verify-otp that presents a stored, unexpired code (the only
\* outstanding one with that code for the user) issues tokens from that OTP;
\* no OTP issues tokens twice; and a verify-otp that presents again a code
\* that has verified, with no login storing it anew in between, gets 401.
C5_OtpSingleUseSequential ==
    \A i, j \in DOMAIN log :
        i < j =>
            /\ (Verified(i) /\ Verified(j)) => log[i].otp_id # log[j].otp_id
            /\ ( /\ Verified(i) /\ IsVerify(j)
                 /\ log[i].email = log[j].email /\ log[i].code = log[j].code
                 /\ ~\E k \in (i + 1)..(j - 1) : StoredFor(k, j) )
                    => log[j].status = 401
            /\ ( /\ IsVerify(j) /\ StoredFor(i, j)
                 /\ Outstanding(i, j)
                 /\ ~\E k \in (1..(j - 1)) \ {i} :
                        StoredFor(k, j) /\ Outstanding(k, j) )
                    => Verified(j) /\ log[j].otp_id = log[i].otp_id

\* C5's case: a login stored a code, a verify-otp with it issued tokens and a
\* later verify-otp with the same code got 401; the OTP carries its consumed
\* time.
C5_Witness ==
    \E i, j, k \in DOMAIN log :
        /\ i < j /\ j < k
        /\ IsVerify(j) /\ StoredFor(i, j) /\ Verified(j)
        /\ log[j].otp_id = log[i].otp_id
        /\ IsVerify(k) /\ StoredFor(i, k) /\ log[k].status = 401
        /\ \E o \in db.otps : o.id = log[i].otp_id /\ o.consumed = log[j].t

\* C6: under any interleaving, no two verify-otp calls issue a token pair
\* from the same OTP record.
C6_OtpNeverReused ==
    \A i, j \in DOMAIN log :
        (i < j /\ Verified(i) /\ Verified(j)) => log[i].otp_id # log[j].otp_id

(***************************************************************************)
(* The tenant resolver, the authentication dependency and the task         *)
(* endpoints.  A Host header is the sequence of its dot-separated labels.  *)
(***************************************************************************)
MaxTaskReqs == 2    \* task requests started in a run
MaxTaskTicks == 1   \* clock ticks of one access-token lifetime in a run

TaskOps ==
    {"create_task", "list_tasks", "update_task", "delete_task", "export_tasks"}

\* A task row; description and due_date, which no request here sets, are
\* left out.  assignee_id is None or a user id.
TaskRow(id, org_id, title, status, assignee_id) ==
    [id |-> id, org_id |-> org_id, title |-> title, status |-> status,
     assignee_id |-> assignee_id, created_at |-> now, updated_at |-> now]

\* A mutant of resolve_organization: the bearer token is consulted first.
resolve_organization_token_first(request) ==
    LET host == request.host
        payload == IF request.authorization = None
                   THEN None
                   ELSE verify_token(request.authorization)
        by_id == IF payload # None /\ "org_id" \in DOMAIN payload
                 THEN {o \in db.orgs : o.id = payload.org_id}
                 ELSE {}
        by_subdomain ==
            IF Len(host) > 1 /\ host[1] # "" /\ host[1] # "www"
            THEN OrgsBySubdomain(host[1])
            ELSE {}
    IN  IF by_id # {} THEN CHOOSE o \in by_id : TRUE
        ELSE IF by_subdomain # {} THEN CHOOSE o \in by_subdomain : TRUE
        ELSE None

\* A mutant of resolve_organization: a token whose org_id names no
\* organization resolves to the first organization.
resolve_organization_default_org(request) ==
    LET host == request.host
        by_subdomain ==
            IF Len(host) > 1 /\ host[1] # "" /\ host[1] # "www"
            THEN OrgsBySubdomain(host[1])
            ELSE {}
        payload == IF request.authorization = None
                   THEN None
                   ELSE verify_token(request.authorization)
        by_id == IF payload # None /\ "org_id" \in DOMAIN payload
                 THEN {o \in db.orgs : o.id = payload.org_id}
                 ELSE IF payload # None
                 THEN {o \in db.orgs : o.id = 1}
                 ELSE {}
    IN  IF by_subdomain # {} THEN CHOOSE o \in by_subdomain : TRUE
        ELSE IF by_id # {} THEN CHOOSE o \in by_id : TRUE
        ELSE None

\* resolve_organization: the organization of the Host's leftmost label when
\* the Host has a dot and the label is neither empty nor "www" and names one;
\* otherwise the organization with the id in a verifying bearer token's
\* org_id claim; otherwise None.
resolve_organization(request) ==
    LET host == request.host
        by_subdomain ==
            IF Len(host) > 1 /\ host[1] # "" /\ host[1] # "www"
            THEN OrgsBySubdomain(host[1])
            ELSE {}
        payload == IF request.authorization = None
                   THEN None
                   ELSE verify_token(request.authorization)
        by_id == IF payload # None /\ "org_id" \in DOMAIN payload
                 THEN {o \in db.orgs : o.id = payload.org_id}
                 ELSE {}
    IN  IF by_subdomain # {} THEN CHOOSE o \in by_subdomain : TRUE
        ELSE IF by_id # {} THEN CHOOSE o \in by_id : TRUE
        ELSE None

\* get_current_user: the user with the id in a verifying bearer token's
\* user_id claim, or None.
get_current_user(request) ==
    LET payload == IF request.authorization = None
                   THEN None
                   ELSE verify_token(request.authorization)
        found == IF payload # None /\ "user_id" \in DOMAIN payload
                 THEN {u \in db.users : u.id = payload.user_id}
                 ELSE {}
    IN  IF found = {} THEN None ELSE CHOOSE u \in found : TRUE

\* get_user_membership: the user's membership in the organization, or None.
get_user_membership(user, org_id) ==
    LET found == {m \in db.memberships :
                    m.user_id = user.id /\ m.org_id = org_id}
    IN  IF found = {} THEN None ELSE CHOOSE m \in found : TRUE

\* A response of a task endpoint, with the request it answers and the
\* organization the tenant middleware had resolved for it.
TaskRespond(p, status, body) ==
    Respond(p, body @@ [op |-> procs[p].op, status |-> status, t |-> now,
                        request |-> procs[p].request,
                        current_org |-> procs[p].current_org])

HTTPException(p, status, detail) == TaskRespond(p, status, [detail |-> detail])

\* A request arrives: the middleware resolves the organization in a session
\* of its own and stores it in request.state.current_org; an exception there
\* leaves None.  The dependencies of the endpoint run next.
tenant_middleware(p, op, request) ==
    /\ CanStart(p)
    /\ Started(TaskOps) < MaxTaskReqs
    /\ procs' = [procs EXCEPT ![p] =
                    [op |-> op, pc |-> "require_auth", request |-> request,
                     current_org |-> resolve_organization(request)]]
    /\ UNCHANGED <<now, mode, redis, log, dbVars, taskVars, wsVars>>

\* The first step of each endpoint after authentication.
HandlerEntry(op) ==
    CASE op = "create_task" -> "create_task"
      [] op = "list_tasks" -> "list_tasks"
      [] op = "export_tasks" -> "export_tasks"
      [] OTHER -> "find_task"

\* require_auth: 401 without a current user, else the endpoint runs.
require_auth(p) ==
    /\ procs[p].op \in TaskOps
    /\ procs[p].pc = "require_auth"
    /\ LET user == get_current_user(procs[p].request) IN
        IF user = None
        THEN HTTPException(p, 401, "Authentication required")
        ELSE /\ Goto(p, HandlerEntry(procs[p].op), [current_user |-> user])
             /\ UNCHANGED log
    /\ UNCHANGED <<now, mode, redis, dbVars, taskVars, wsVars>>

\* The endpoint without its comparison of the organizations.
OrgMismatchIgnored(current_org, org_id) == FALSE

\* current_org.id != org_id
OrgMismatch(current_org, org_id) == current_org.id # org_id

\* "Verify org context" of create_task and list_tasks: get_current_org raises
\* 400 when no organization was resolved, and a resolved organization other
\* than the path's is the 403.  None when the check passes.
OrgContextError(p) ==
    IF procs[p].current_org = None
    THEN [status |-> 400, detail |-> "Organization context not found"]
    ELSE IF OrgMismatch(procs[p].current_org, procs[p].request.org_id)
    THEN [status |-> 403, detail |-> "Access denied to this organization"]
    ELSE None

\* base64 of the JSON of the id and the ISO form of created_at.
encode_cursor(task_id, created_at) ==
    [b64 |-> [json |-> [id |-> task_id, created_at |-> created_at]]]

\* The text decodes to an id and a time.
CursorDecodes(cursor) ==
    /\ DOMAIN cursor = {"b64"}
    /\ DOMAIN cursor.b64 = {"json"}
    /\ DOMAIN cursor.b64.json = {"id", "created_at"}

\* decode_cursor of a text that decodes.
decode_cursor(cursor) == cursor.b64.json

\* t comes before u in the listing: descending created_at, then id.
ListedBefore(t, u) ==
    \/ t.created_at > u.created_at
    \/ t.created_at = u.created_at /\ t.id > u.id

\* order_by(desc(Task.created_at), desc(Task.id))
RECURSIVE OrderDesc(_)
OrderDesc(rows) ==
    IF rows = {} THEN <<>>
    ELSE LET first == CHOOSE t \in rows :
                        \A u \in rows \ {t} : ListedBefore(t, u)
         IN  <<first>> \o OrderDesc(rows \ {first})

\* A query parameter is None when absent, else [str |-> text] or
\* [int |-> n].  "if status_filter:" and "if assignee_id:" take an absent
\* parameter, the empty text and 0 alike.
Truthy(param) == param \notin {None, [str |-> ""], [int |-> 0]}

\* The rows of the list query before ordering: the organization's tasks,
\* with the status and assignee filters that are applied and below the
\* cursor.
ListQueryRows(request) ==
    {t \in db.tasks :
        /\ t.org_id = request.org_id
        /\ Truthy(request.status_filter) =>
                t.status = request.status_filter.str
        /\ Truthy(request.assignee) => t.assignee_id = request.assignee.int
        /\ request.cursor # None =>
            LET c == decode_cursor(request.cursor) IN
            \/ t.created_at < c.created_at
            \/ t.created_at = c.created_at /\ t.id < c.id}

\* GET /organizations/{org_id}/tasks: the org check, then limit + 1 rows in
\* order; the extra row only says that there are more.
list_tasks(p) ==
    /\ At(p, "list_tasks", "list_tasks")
    /\ LET request == procs[p].request
           err == OrgContextError(p)
       IN
        IF err # None THEN HTTPException(p, err.status, err.detail)
        ELSE IF request.cursor # None /\ ~CursorDecodes(request.cursor)
        THEN HTTPException(p, 400, "Invalid cursor")
        ELSE
            LET ordered == OrderDesc(ListQueryRows(request))
                has_more == Len(ordered) > request.limit
                tasks == IF has_more
                         THEN SubSeq(ordered, 1, request.limit)
                         ELSE ordered
                next_cursor ==
                    IF has_more /\ tasks # <<>>
                    THEN encode_cursor(tasks[Len(tasks)].id,
                                       tasks[Len(tasks)].created_at)
                    ELSE None
            IN  TaskRespond(p, 200, [tasks |-> tasks,
                                     next_cursor |-> next_cursor,
                                     has_more |-> has_more])
    /\ UNCHANGED <<now, mode, redis, dbVars, taskVars, wsVars>>

\* POST /organizations/{org_id}/tasks up to its commit: the org check, then
\* the insert; an assignee that is no user violates the foreign key.
create_task(p) ==
    /\ At(p, "create_task", "create_task")
    /\ LET request == procs[p].request
           err == OrgContextError(p)
           task == TaskRow(ids.tasks + 1, request.org_id,
                           request.task_data.title, request.task_data.status,
                           request.task_data.assignee_id)
       IN
        IF err # None
        THEN HTTPException(p, err.status, err.detail) /\ UNCHANGED dbVars
        ELSE IF /\ task.assignee_id # None
                /\ ~\E u \in db.users : u.id = task.assignee_id
        THEN /\ TaskRespond(p, 500, [detail |-> "IntegrityError"])
             /\ ids' = [ids EXCEPT !.tasks = @ + 1]
             /\ UNCHANGED db
        ELSE /\ db' = [db EXCEPT !.tasks = @ \cup {task}]
             /\ ids' = [ids EXCEPT !.tasks = @ + 1]
             /\ Goto(p, "publish",
                     [event |-> [type |-> "task_created", task |-> task],
                      body |-> [task |-> task]])
             /\ UNCHANGED log
    /\ UNCHANGED <<now, mode, redis, taskVars, wsVars>>

\* update_task and delete_task up to the org check: the task by id (404),
\* get_current_org (400), and the task's organization against the resolved
\* one (403).
find_task(p) ==
    /\ procs[p].op \in {"update_task", "delete_task"}
    /\ procs[p].pc = "find_task"
    /\ LET found == {t \in db.tasks : t.id = procs[p].request.task_id} IN
        IF found = {} THEN HTTPException(p, 404, "Task not found")
        ELSE IF procs[p].current_org = None
        THEN HTTPException(p, 400, "Organization context not found")
        ELSE IF \E t \in found : t.org_id # procs[p].current_org.id
        THEN HTTPException(p, 403, "Access denied to this task")
        ELSE /\ Goto(p, "check_permissions",
                     [task |-> CHOOSE t \in found : TRUE])
             /\ UNCHANGED log
    /\ UNCHANGED <<now, mode, redis, dbVars, taskVars, wsVars>>

\* A mutant of check_permissions: a caller without a membership in the
\* resolved organization is treated as a plain member, so the assignee of
\* the task passes.
check_permissions_without_membership(p) ==
    /\ procs[p].op \in {"update_task", "delete_task"}
    /\ procs[p].pc = "check_permissions"
    /\ LET f == procs[p]
           membership == get_user_membership(f.current_user, f.current_org.id)
           role == IF membership = None THEN "member" ELSE membership.role
       IN
        IF role # "admin" /\ f.task.assignee_id # f.current_user.id
        THEN HTTPException(p, 403,
                IF f.op = "update_task"
                THEN "You can only modify tasks you created or are assigned to"
                ELSE "You can only delete tasks you created or are assigned to")
        ELSE Goto(p, "commit", <<>>) /\ UNCHANGED log
    /\ UNCHANGED <<now, mode, redis, dbVars, taskVars, wsVars>>

\* "Check permissions": membership.role of a user without a membership in
\* the resolved organization raises AttributeError (500); a member who is
\* neither admin nor the assignee gets 403.
check_permissions(p) ==
    /\ procs[p].op \in {"update_task", "delete_task"}
    /\ procs[p].pc = "check_permissions"
    /\ LET f == procs[p]
           membership == get_user_membership(f.current_user, f.current_org.id)
       IN
        IF membership = None
        THEN TaskRespond(p, 500, [detail |-> "AttributeError"])
        ELSE IF /\ membership.role # "admin"
                /\ f.task.assignee_id # f.current_user.id
        THEN HTTPException(p, 403,
                IF f.op = "update_task"
                THEN "You can only modify tasks you created or are assigned to"
                ELSE "You can only delete tasks you created or are assigned to")
        ELSE Goto(p, "commit", <<>>) /\ UNCHANGED log
    /\ UNCHANGED <<now, mode, redis, dbVars, taskVars, wsVars>>

\* The fields the request set are written with updated_at and committed; an
\* UPDATE that matches no row (the task was deleted meanwhile) raises
\* StaleDataError.  The response is the row read back.
update_task(p) ==
    /\ At(p, "update_task", "commit")
    /\ LET f == procs[p]
           rows == {t \in db.tasks : t.id = f.task.id}
           updated(t) == [k \in DOMAIN t |->
                            IF k \in DOMAIN f.request.task_data
                            THEN f.request.task_data[k]
                            ELSE IF k = "updated_at" THEN now ELSE t[k]]
       IN
        IF rows = {}
        THEN TaskRespond(p, 500, [detail |-> "StaleDataError"]) /\ UNCHANGED db
        ELSE LET task == updated(CHOOSE t \in rows : TRUE) IN
             /\ db' = [db EXCEPT !.tasks = (@ \ rows) \cup {task}]
             /\ Goto(p, "publish",
                     [event |-> [type |-> "task_updated", task |-> task],
                      body |-> [task |-> task]])
             /\ UNCHANGED log
    /\ UNCHANGED <<now, mode, redis, ids, taskVars, wsVars>>

\* The row is deleted and the deletion committed.
delete_task(p) ==
    /\ At(p, "delete_task", "commit")
    /\ db' = [db EXCEPT !.tasks = {t \in @ : t.id # procs[p].task.id}]
    /\ Goto(p, "publish",
            [event |-> [type |-> "task_deleted",
                        task_id |-> procs[p].request.task_id],
             body |-> [message |-> "Task deleted successfully"]])
    /\ UNCHANGED <<now, mode, redis, log, ids, taskVars, wsVars>>

\* The channel is that of the path's organization in create_task and of the
\* resolved organization in update_task and delete_task.
PublishChannel(p) ==
    <<"org",
      IF procs[p].op = "create_task"
      THEN procs[p].request.org_id
      ELSE procs[p].current_org.id,
      "tasks">>

\* redis_client.publish of the event, then the 200 response; the row of
\* create_task and update_task is its "task" part.
publish(p) ==
    /\ procs[p].op \in {"create_task", "update_task", "delete_task"}
    /\ procs[p].pc = "publish"
    /\ pub' = Append(pub, [channel |-> PublishChannel(p),
                           message |-> procs[p].event])
    /\ TaskRespond(p, 200, procs[p].body)
    /\ UNCHANGED <<now, mode, redis, dbVars, jobs, wsVars>>

\* POST /tasks/{task_id}/export: get_current_org (400), then the export job
\* of the resolved organization and the caller is queued.
export_tasks(p) ==
    /\ At(p, "export_tasks", "export_tasks")
    /\ IF procs[p].current_org = None
       THEN /\ HTTPException(p, 400, "Organization context not found")
            /\ UNCHANGED jobs
       ELSE /\ jobs' = Append(jobs, [org_id |-> procs[p].current_org.id,
                                     user_id |-> procs[p].current_user.id])
            /\ TaskRespond(p, 200, [job_status |-> "pending"])
    /\ UNCHANGED <<now, mode, redis, dbVars, pub, wsVars>>

\* One access-token lifetime passes.
TaskTick ==
    /\ now + Minutes(ACCESS_TTL_MIN) <= MaxTaskTicks * Minutes(ACCESS_TTL_MIN)
    /\ mode = "seq" => IdleAll
    /\ now' = now + Minutes(ACCESS_TTL_MIN)
    /\ UNCHANGED <<mode, redis, procs, log, dbVars, taskVars, wsVars>>

\* The Host headers of requests: the test client's host, a tenant's host
\* and the "www" host.
Hosts ==
    {<<"test">>, <<"beta", "example", "local">>, <<"www", "example", "local">>}

\* The Authorization headers: none, and the bearer tokens the two admins
\* got at time 0.
Authorizations ==
    {None,
     AccessTokenFromStart([user_id |-> 1, org_id |-> 1, role |-> "admin"]),
     AccessTokenFromStart([user_id |-> 2, org_id |-> 2, role |-> "admin"])}

Headers == [host : Hosts, authorization : Authorizations]

\* limit: the default.
ListLimits == {20}

ListRequests ==
    {h @@ [org_id |-> o, status_filter |-> None, assignee |-> None,
           cursor |-> None, limit |-> l] :
        h \in Headers, o \in {1, 2}, l \in ListLimits}

CreateRequests ==
    {h @@ [org_id |-> o,
           task_data |-> [title |-> "New", status |-> "todo",
                          assignee_id |-> None]] :
        h \in Headers, o \in {1, 2}}

UpdateRequests ==
    {h @@ [task_id |-> i, task_data |-> [title |-> "Renamed"]] :
        h \in Headers, i \in {1, 2}}

TaskIdRequests == {h @@ [task_id |-> i] : h \in Headers, i \in {1, 2}}

\* The store after two registers at time 0 ("Acme" by a@x.com, "Beta" by
\* b@x.com) and one create_task in each organization.
StoreTwoOrgs ==
    /\ db = [EmptyDb EXCEPT
                !.orgs = {OrganizationRow(1, "Acme", "acme"),
                          OrganizationRow(2, "Beta", "beta")},
                !.users = {UserRow(1, "a@x.com", hash_password("pw")),
                           UserRow(2, "b@x.com", hash_password("pw"))},
                !.memberships = {MembershipRow(1, 1, "admin"),
                                 MembershipRow(2, 2, "admin")},
                !.tokens = {RefreshTokenRow(1, 1, 1, 1),
                            RefreshTokenRow(2, 2, 2, 2)},
                !.tasks = {TaskRow(1, 1, "Acme task", "todo", None),
                           TaskRow(2, 2, "Beta task", "todo", None)}]
    /\ ids = [orgs |-> 2, users |-> 2, otps |-> 0, tokens |-> 2, tasks |-> 2,
              raw |-> 2]

TaskNext ==
    \/ \E p \in Procs, request \in ListRequests :
            tenant_middleware(p, "list_tasks", request)
    \/ \E p \in Procs, request \in CreateRequests :
            tenant_middleware(p, "create_task", request)
    \/ \E p \in Procs, request \in UpdateRequests :
            tenant_middleware(p, "update_task", request)
    \/ \E p \in Procs, request \in TaskIdRequests :
            tenant_middleware(p, "delete_task", request)
    \/ \E p \in Procs, request \in {r \in TaskIdRequests : r.task_id = 1} :
            tenant_middleware(p, "export_tasks", request)
    \/ \E p \in Procs : require_auth(p)
    \/ \E p \in Procs : list_tasks(p)
    \/ \E p \in Procs : create_task(p)
    \/ \E p \in Procs : find_task(p)
    \/ \E p \in Procs : check_permissions(p)
    \/ \E p \in Procs : update_task(p)
    \/ \E p \in Procs : delete_task(p)
    \/ \E p \in Procs : publish(p)
    \/ \E p \in Procs : export_tasks(p)
    \/ TaskTick

InitTasks == InitCommon /\ StoreTwoOrgs /\ mode = "conc"

\* Task requests that interleave at every await.
SpecTasks == InitTasks /\ [][TaskNext]_vars

(***************************************************************************)
(* Claims about tenant scoping of the task endpoints.                      *)
(***************************************************************************)
\* Response i answers a task request that was carried out.
TaskProceeded(i) == log[i].op \in TaskOps /\ log[i].status = 200

\* C3: a task operation (create, list, update, delete, export) proceeds only
\* if the org_id in the presented access token equals the organization the
\* tenant resolver resolved for the request.
C3_TokenOrgEqualsResolvedOrg ==
    \A i \in DOMAIN log :
        TaskProceeded(i) =>
            log[i].request.authorization.org_id = log[i].current_org.id

\* The Host header names no tenant: it has no dot, or its leftmost label is
\* empty, "www" or no organization's subdomain.
NoTenantInHost(host) ==
    ~(Len(host) > 1 /\ host[1] \notin {"", "www"}
        /\ OrgsBySubdomain(host[1]) # {})

\* Response i answers a request to /organizations/{org_id}/tasks whose Host
\* names no tenant and whose bearer token was issued for another
\* organization than the path's.
ForeignPathRequest(i) ==
    /\ log[i].op \in {"list_tasks", "create_task"}
    /\ NoTenantInHost(log[i].request.host)
    /\ log[i].request.authorization # None
    /\ log[i].request.authorization.org_id # log[i].request.org_id

\* Slot p takes the step of list_tasks or create_task that checks the
\* organization, for a request whose Host names no tenant.
OrgCheckStep(p) ==
    /\ procs[p].op \in {"list_tasks", "create_task"}
    /\ procs[p].pc = procs[p].op
    /\ procs'[p] # procs[p]
    /\ NoTenantInHost(procs[p].request.host)

\* C4: with no tenant in the Host, a request with a token issued for org A
\* against /organizations/{B}/tasks, B # A, is refused: 403 while the token
\* verifies (401 once it has expired), and its handler changes no task and
\* publishes nothing; listing /organizations/{A}/tasks with A's token (no
\* filter, no cursor, no more tasks than the limit) returns exactly the tasks
\* whose org is A.
C4_TenantIsolationByPath ==
    /\ [](\A i \in DOMAIN log :
            ForeignPathRequest(i) =>
                /\ log[i].status \in {401, 403}
                /\ log[i].request.authorization.exp > log[i].t
                    => log[i].status = 403)
    /\ [][\A p \in Procs :
            OrgCheckStep(p) =>
                LET request == procs[p].request
                    A == request.authorization.org_id
                    own == {t \in db.tasks : t.org_id = A}
                    r == log'[Len(log')]
                IN
                /\ request.org_id # A =>
                    /\ procs'[p] = Idle /\ r.status = 403
                    /\ db' = db /\ pub' = pub
                /\ ( /\ request.org_id = A /\ procs[p].op = "list_tasks"
                     /\ request.status_filter = None
                     /\ request.assignee = None
                     /\ request.cursor = None
                     /\ Cardinality(own) <= request.limit )
                    => /\ procs'[p] = Idle /\ r.status = 200
                       /\ {r.tasks[k] : k \in DOMAIN r.tasks} = own
                       /\ Len(r.tasks) = Cardinality(own)
                       /\ ~r.has_more]_vars

\* C4's case: with tasks of two organizations stored, a token of org A
\* against another organization's path got 403 and the listing of A's path
\* with A's token returned tasks, both under a Host that names no tenant.
C4_Witness ==
    /\ \E t, u \in db.tasks : t.org_id # u.org_id
    /\ \E i, j \in DOMAIN log :
        /\ ForeignPathRequest(i) /\ log[i].op = "list_tasks"
        /\ log[i].status = 403
        /\ log[j].op = "list_tasks" /\ log[j].status = 200
        /\ NoTenantInHost(log[j].request.host)
        /\ log[j].request.authorization.org_id = log[j].request.org_id
        /\ log[j].request.authorization = log[i].request.authorization
        /\ log[j].tasks # <<>>

(***************************************************************************)
(* Login on its own, next to the limit: the store holds the registered     *)
(* user and a user who joined the organization through Google sign-in, and *)
(* four logins of a@x.com with a wrong password were refused at time 0.    *)
(***************************************************************************)
\* The store after register("Acme", "acme", "a@x.com", "pw") and a Google
\* sign-in of g@x.com into that organization, both at time 0.
StoreWithOAuthUser ==
    /\ db = [EmptyDb EXCEPT
                !.orgs = {OrganizationRow(1, "Acme", "acme")},
                !.users = {UserRow(1, "a@x.com", hash_password("pw")),
                           UserRow(2, "g@x.com", None)},
                !.memberships = {MembershipRow(1, 1, "admin"),
                                 MembershipRow(2, 1, "member")},
                !.tokens = {RefreshTokenRow(1, 1, 1, 1),
                            RefreshTokenRow(2, 2, 1, 2)}]
    /\ ids = [orgs |-> 1, users |-> 2, otps |-> 0, tokens |-> 2, tasks |-> 0,
              raw |-> 2]

\* The counters after four logins of a@x.com at time 0.
CountersAfterFourLogins ==
    [k \in RateKeys |->
        IF k = rate_key("a@x.com")
        THEN [present |-> TRUE, val |-> RATE_LIMIT - 1, ttl |-> TRUE,
              exp |-> RATE_WINDOW]
        ELSE NoEntry]

InitLogin ==
    /\ now = 0
    /\ redis = CountersAfterFourLogins
    /\ procs = [p \in Procs |-> Idle]
    /\ log = <<>>
    /\ pub = <<>>
    /\ jobs = <<>>
    /\ NoSockets
    /\ StoreWithOAuthUser
    /\ mode = "conc"

LoginNext ==
    \/ \E p \in Procs, email \in LoginEmails \cup OAuthEmails,
          password \in LoginPasswords :
            StartLogin(p, email, password)
    \/ \E p \in Procs : RateGet(p)
    \/ \E p \in Procs : RateWrite(p)
    \/ \E p \in Procs : LoginFindUser(p)
    \/ \E p \in Procs : LoginCommitOtp(p)
    \/ OtpTick

\* Login calls that interleave at every await.
SpecLogin == InitLogin /\ [][LoginNext]_vars

\* The login call in slot p takes a step.
LoginSteps(p) == procs[p].op = "login" /\ procs'[p] # procs[p]

\* The login call in slot p ends with the given status.
LoginEnds(p, statuses) ==
    /\ procs'[p] = Idle
    /\ Len(log') = Len(log) + 1
    /\ log'[Len(log')].op = "login"
    /\ log'[Len(log')].email = procs[p].email
    /\ log'[Len(log')].status \in statuses

\* C13: login starts with the rate limiter: its first step reads the counter
\* of the email's key, a counter at the limit ends the call there with 429,
\* whatever the password, without a lookup of the user and without an OTP;
\* 429 comes from that step only, and the user is looked up only by a call
\* the limiter let through.
C13_LoginRateLimitFirst ==
    [][\A p \in Procs :
        /\ (procs[p] = Idle /\ procs'[p].op = "login") =>
                /\ procs'[p].pc = "rl_get"
                /\ procs'[p].key = rate_key(procs'[p].email)
        /\ LoginSteps(p) =>
            /\ ( /\ procs[p].pc = "rl_get"
                 /\ redis[procs[p].key].present
                 /\ redis[procs[p].key].val >= RATE_LIMIT )
                    => LoginEnds(p, {429}) /\ db' = db /\ ids' = ids
            /\ LoginEnds(p, {429}) => procs[p].pc = "rl_get"
            /\ procs[p].pc \in {"rl_get", "rl_write"} =>
                /\ db' = db
                /\ procs'[p] # Idle => procs'[p].pc \in {"rl_write", "find_user"}
            /\ (procs'[p] # Idle /\ procs'[p].pc = "find_user")
                    => procs[p].pc = "rl_write"]_vars

\* C13's case: a login with the registered email and the right password was
\* refused with 429 and no OTP exists.
C13_Witness ==
    /\ db.otps = {}
    /\ \E i \in DOMAIN log :
        /\ log[i].op = "login" /\ log[i].status = 429
        /\ \E u \in db.users :
            /\ u.email = log[i].email
            /\ u.password_hash # None
            /\ verify_password(log[i].password, u.password_hash)

\* The credentials of the login in slot p are valid: a user has the email
\* and a password hash that the password matches.
ValidCredentials(p) ==
    \E u \in db.users :
        /\ u.email = procs[p].email
        /\ u.password_hash # None
        /\ verify_password(procs[p].password, u.password_hash)

\* C14: a login let through by the limiter with valid credentials goes on
\* to store exactly one new OTP, unconsumed, unexpired and bound to that
\* user, and answers otp_required = true with no token in the response and
\* no refresh-token record; no other step of a login, and so no login that
\* ends with 401 or 429, changes the store.
C14_LoginStoresOneOtp ==
    [][\A p \in Procs :
        LoginSteps(p) =>
            /\ procs[p].pc = "find_user" =>
                /\ ValidCredentials(p) <=>
                        (procs'[p] # Idle /\ procs'[p].pc = "commit_otp")
                /\ ~ValidCredentials(p) <=> LoginEnds(p, {401})
            /\ procs[p].pc = "commit_otp" =>
                /\ LoginEnds(p, {200})
                /\ LET r == log'[Len(log')] IN
                    /\ r.otp_required
                    /\ {"access_token", "refresh_token"} \cap DOMAIN r = {}
                    /\ \E o \in db'.otps \ db.otps :
                        /\ db'.otps = db.otps \cup {o}
                        /\ \A old \in db.otps : old.id # o.id
                        /\ \E u \in db.users :
                                u.email = procs[p].email /\ o.user_id = u.id
                        /\ o.code = r.otp_code
                        /\ o.consumed = -1
                        /\ o.expires_at = now + Minutes(OTP_TTL_MIN)
                /\ db' = [db EXCEPT !.otps = db'.otps]
            /\ procs[p].pc # "commit_otp" =>
                /\ db' = db
                /\ ~LoginEnds(p, {200})
            /\ LoginEnds(p, {401, 429}) => db' = db]_vars

\* C14's case: one login stored an OTP and answered otp_required, another
\* was refused with 401 and a third with 429; one OTP exists and the refresh
\* tokens are those of the start.
C14_Witness ==
    /\ Cardinality(db.otps) = 1
    /\ Cardinality(db.tokens) = 2
    /\ \E i, j, k \in DOMAIN log :
        /\ log[i].op = "login" /\ log[i].status = 200 /\ log[i].otp_required
        /\ \E o \in db.otps : o.id = log[i].otp_id /\ o.consumed = -1
        /\ log[j].op = "login" /\ log[j].status = 401
        /\ log[k].op = "login" /\ log[k].status = 429

\* What the caller sees of a response.
ClientVisible(r) == [status |-> r.status, detail |-> r.detail]

\* C15: a login let through by the limiter whose email is unknown, whose
\* password is wrong, or whose account has no password hash gets one and the
\* same response, 401 "Invalid credentials"; the limiter's own answer depends
\* on the counter of the email's key only, not on the users stored.
C15_LoginFailureUniform ==
    [][\A p \in Procs :
        LoginSteps(p) =>
            /\ ( /\ procs[p].pc = "find_user"
                 /\ \/ ~\E u \in db.users : u.email = procs[p].email
                    \/ \E u \in db.users :
                        /\ u.email = procs[p].email
                        /\ \/ u.password_hash = None
                           \/ ~verify_password(procs[p].password,
                                               u.password_hash) )
                    => /\ LoginEnds(p, {401})
                       /\ ClientVisible(log'[Len(log')]) =
                            [status |-> 401, detail |-> "Invalid credentials"]
            /\ procs[p].pc = "rl_get" =>
                (LoginEnds(p, {429}) <=>
                    (redis[procs[p].key].present
                        /\ redis[procs[p].key].val >= RATE_LIMIT))
            /\ LoginEnds(p, {401, 404}) => procs[p].pc = "find_user"]_vars

\* C15's case: an unknown email, the registered email with a wrong password
\* and the account without a password hash were each answered 401.
C15_Witness ==
    \E i, j, k \in DOMAIN log :
        /\ log[i].op = "login" /\ log[i].status = 401
        /\ ~\E u \in db.users : u.email = log[i].email
        /\ log[j].op = "login" /\ log[j].status = 401
        /\ \E u \in db.users :
            /\ u.email = log[j].email /\ u.password_hash # None
            /\ ~verify_password(log[j].password, u.password_hash)
        /\ log[k].op = "login" /\ log[k].status = 401
        /\ \E u \in db.users :
            u.email = log[k].email /\ u.password_hash = None

\* C16: any two rejections by verify_otp are the same response to the
\* caller, whatever was wrong: the email, the code, its expiry or its use.
C16_VerifyRejectionsUniform ==
    \A i, j \in DOMAIN log :
        ( /\ IsVerify(i) /\ log[i].status # 200
          /\ IsVerify(j) /\ log[j].status # 200 )
            => ClientVisible(log[i]) = ClientVisible(log[j])

\* The OTP stored by login i is the most recent one stored for its user
\* before call j.
MostRecentStored(i, j) ==
    ~\E k \in (i + 1)..(j - 1) : Stored(k) /\ log[k].email = log[i].email

\* C17: a verify-otp call succeeds only with the most recent OTP stored for
\* the user of its email, and only while that OTP is unexpired and
\* unconsumed.
C17_OnlyMostRecentOtpVerifies ==
    \A j \in DOMAIN log :
        Verified(j) =>
            \E i \in 1..(j - 1) :
                /\ StoredFor(i, j)
                /\ log[i].otp_id = log[j].otp_id
                /\ Outstanding(i, j)
                /\ MostRecentStored(i, j)

(***************************************************************************)
(* POST /auth/login/google.  An id token is what its issuer signed: the    *)
(* audience it was issued for and the email it vouches for.                *)
(***************************************************************************)
MaxGoogleReqs == 3   \* Google sign-in requests started in a run

\* settings.GOOGLE_CLIENT_ID of a deployment with Google sign-in set up.
GOOGLE_CLIENT_ID == "client-id"

\* The token the mock mode accepts.
MOCK_ID_TOKEN == [mock |-> TRUE]

\* verify_google_token: without a client id only the mock token verifies,
\* as test@example.com; with one, a token issued for that audience yields
\* the identity it carries, any other token yields None.
verify_google_token(token) ==
    IF GOOGLE_CLIENT_ID = ""
    THEN IF token = MOCK_ID_TOKEN
         THEN [email |-> "test@example.com"]
         ELSE None
    ELSE IF token # MOCK_ID_TOKEN /\ token.aud = GOOGLE_CLIENT_ID
         THEN [email |-> token.email]
         ELSE None

\* The id tokens presented: of the registered founder of Acme, of a person
\* without an account, one issued for another audience, and the mock token.
GoogleTokens ==
    {[aud |-> GOOGLE_CLIENT_ID, email |-> "a@x.com"],
     [aud |-> GOOGLE_CLIENT_ID, email |-> "g@x.com"],
     [aud |-> "other-client", email |-> "a@x.com"],
     MOCK_ID_TOKEN}

\* The requests: an id token under a tenant's host or the test client's.
GoogleRequests ==
    [id_token : GoogleTokens,
     host : {<<"acme", "example", "local">>, <<"beta", "example", "local">>,
             <<"test">>},
     authorization : {None}]

StartGoogleLogin(p, request) ==
    /\ CanStart(p)
    /\ Started({"google_login"}) < MaxGoogleReqs
    /\ procs' = [procs EXCEPT ![p] =
                    [op |-> "google_login", pc |-> "resolve",
                     request |-> request]]
    /\ UNCHANGED <<now, mode, redis, log, dbVars, taskVars, wsVars>>

\* A mutant of GoogleResolve: the user of the verified email is created and
\* committed before the organization is resolved.
GoogleResolveAfterUserCommit(p) ==
    /\ At(p, "google_login", "resolve")
    /\ LET request == procs[p].request
           user_info == verify_google_token(request.id_token)
           org == resolve_organization(request)
       IN
        IF user_info = None
        THEN /\ Respond(p, ErrorResponse("google_login", [request |-> request],
                                         401, "Invalid Google token"))
             /\ UNCHANGED dbVars
        ELSE IF org = None
        THEN /\ Respond(p, ErrorResponse("google_login", [request |-> request],
                                         400, "Organization context required"))
             /\ IF UsersByEmail(user_info.email) = {}
                THEN /\ db' = [db EXCEPT !.users = @ \cup
                                {UserRow(ids.users + 1, user_info.email, None)}]
                     /\ ids' = [ids EXCEPT !.users = @ + 1]
                ELSE UNCHANGED dbVars
        ELSE /\ Goto(p, "find_user", [user_info |-> user_info, org |-> org])
             /\ UNCHANGED <<log, dbVars>>
    /\ UNCHANGED <<now, mode, redis, taskVars, wsVars>>

\* Lines 220-235: the id token is verified (401), then the organization of
\* the request is resolved (400).
GoogleResolve(p) ==
    /\ At(p, "google_login", "resolve")
    /\ LET request == procs[p].request
           user_info == verify_google_token(request.id_token)
           org == resolve_organization(request)
       IN
        IF user_info = None
        THEN Respond(p, ErrorResponse("google_login", [request |-> request],
                                      401, "Invalid Google token"))
        ELSE IF org = None
        THEN Respond(p, ErrorResponse("google_login", [request |-> request],
                                      400, "Organization context required"))
        ELSE /\ Goto(p, "find_user", [user_info |-> user_info, org |-> org])
             /\ UNCHANGED log
    /\ UNCHANGED <<now, mode, redis, dbVars, taskVars, wsVars>>

\* Lines 237-245: the user with the verified email, or a new one to insert.
GoogleFindUser(p) ==
    /\ At(p, "google_login", "find_user")
    /\ LET found == UsersByEmail(procs[p].user_info.email) IN
        IF found = {}
        THEN Goto(p, "flush_user", <<>>)
        ELSE Goto(p, "find_membership",
                  [user |-> CHOOSE u \in found : TRUE, new_user |-> FALSE])
    /\ UNCHANGED <<now, mode, redis, log, dbVars, taskVars, wsVars>>

\* Another open transaction, of a Google sign-in or of a register, holds an
\* uncommitted user with this email.
GoogleUserInsertPending(p, email) == UserInsertPending(p, email)

\* A mutant of GoogleFlushUser: the users table has no unique email.
GoogleFlushUserUnchecked(p) ==
    /\ At(p, "google_login", "flush_user")
    /\ ids' = [ids EXCEPT !.users = @ + 1]
    /\ Goto(p, "find_membership",
            [user |-> UserRow(ids.users + 1, procs[p].user_info.email, None),
             new_user |-> TRUE])
    /\ UNCHANGED <<now, mode, redis, log, db, taskVars, wsVars>>

\* Line 246: INSERT the user without a password hash (unique email).
GoogleFlushUser(p) ==
    /\ At(p, "google_login", "flush_user")
    /\ ~GoogleUserInsertPending(p, procs[p].user_info.email)
    /\ ids' = [ids EXCEPT !.users = @ + 1]
    /\ IF UsersByEmail(procs[p].user_info.email) # {}
       THEN Respond(p, ErrorResponse("google_login",
                                     [request |-> procs[p].request], 500,
                                     "IntegrityError"))
       ELSE /\ Goto(p, "find_membership",
                    [user |-> UserRow(ids.users + 1, procs[p].user_info.email,
                                      None),
                     new_user |-> TRUE])
            /\ UNCHANGED log
    /\ UNCHANGED <<now, mode, redis, db, taskVars, wsVars>>

\* A mutant of GoogleFindMembership: a new membership is an admin's.
GoogleFindMembershipAsAdmin(p) ==
    /\ At(p, "google_login", "find_membership")
    /\ LET membership ==
            get_user_membership(procs[p].user, procs[p].org.id) IN
        IF membership = None
        THEN Goto(p, "commit",
                  [membership |-> MembershipRow(procs[p].user.id,
                                                procs[p].org.id, "admin"),
                   new_membership |-> TRUE])
        ELSE Goto(p, "commit",
                  [membership |-> membership, new_membership |-> FALSE])
    /\ UNCHANGED <<now, mode, redis, log, dbVars, taskVars, wsVars>>

\* Lines 248-263: the user's membership in the organization, or a new one
\* with role member.
GoogleFindMembership(p) ==
    /\ At(p, "google_login", "find_membership")
    /\ LET membership ==
            get_user_membership(procs[p].user, procs[p].org.id) IN
        IF membership = None
        THEN Goto(p, "commit",
                  [membership |-> MembershipRow(procs[p].user.id,
                                                procs[p].org.id, "member"),
                   new_membership |-> TRUE])
        ELSE Goto(p, "commit",
                  [membership |-> membership, new_membership |-> FALSE])
    /\ UNCHANGED <<now, mode, redis, log, dbVars, taskVars, wsVars>>

\* Line 265: the commit inserts the new membership (unique user and
\* organization) and makes the new rows durable.
GoogleCommit(p) ==
    /\ At(p, "google_login", "commit")
    /\ LET f == procs[p] IN
        IF /\ f.new_membership
           /\ get_user_membership(f.user, f.org.id) # None
        THEN /\ Respond(p, ErrorResponse("google_login",
                                         [request |-> f.request], 500,
                                         "IntegrityError"))
             /\ UNCHANGED db
        ELSE /\ db' = [db EXCEPT
                        !.users = IF f.new_user THEN @ \cup {f.user} ELSE @,
                        !.memberships = IF f.new_membership
                                        THEN @ \cup {f.membership}
                                        ELSE @]
             /\ Goto(p, "commit_token", <<>>)
             /\ UNCHANGED log
    /\ UNCHANGED <<now, mode, redis, ids, taskVars, wsVars>>

\* Lines 267-288: issue the pair, commit the refresh token and return.
GoogleCommitToken(p) ==
    /\ At(p, "google_login", "commit_token")
    /\ LET f == procs[p]
           raw == create_refresh_token
           access == create_access_token(
                        [user_id |-> f.user.id, org_id |-> f.org.id,
                         role |-> f.membership.role])
       IN
        /\ db' = [db EXCEPT !.tokens = @ \cup
                    {RefreshTokenRow(ids.tokens + 1, f.user.id, f.org.id, raw)}]
        /\ ids' = [ids EXCEPT !.tokens = @ + 1, !.raw = raw]
        /\ Respond(p, TokenResponse("google_login", [request |-> f.request],
                                    access, raw))
    /\ UNCHANGED <<now, mode, redis, taskVars, wsVars>>

GoogleNext ==
    \/ \E p \in Procs, request \in GoogleRequests : StartGoogleLogin(p, request)
    \/ \E p \in Procs : GoogleResolve(p)
    \/ \E p \in Procs : GoogleFindUser(p)
    \/ \E p \in Procs : GoogleFlushUser(p)
    \/ \E p \in Procs : GoogleFindMembership(p)
    \/ \E p \in Procs : GoogleCommit(p)
    \/ \E p \in Procs : GoogleCommitToken(p)

InitGoogle == InitCommon /\ StoreTwoOrgs /\ mode = "conc"

\* Google sign-in requests that interleave, on the store of two
\* organizations.
SpecGoogle == InitGoogle /\ [][GoogleNext]_vars

\* The Google sign-in in slot p takes a step.
GoogleSteps(p) == procs[p].op = "google_login" /\ procs'[p] # procs[p]

\* The Google sign-in in slot p ends with the given status.
GoogleEnds(p, statuses) ==
    /\ procs'[p] = Idle
    /\ Len(log') = Len(log) + 1
    /\ log'[Len(log')].op = "google_login"
    /\ log'[Len(log')].request = procs[p].request
    /\ log'[Len(log')].status \in statuses

\* The commit of the sign-in in slot p succeeds: the user of the verified
\* email was there and is kept, or is the one row added (without a password
\* hash); that user's membership in the resolved organization was there and
\* is kept as it is, or is the one row added, with role member.
GoogleFindsOrCreates(p) ==
    LET email == verify_google_token(procs[p].request.id_token).email
        org == resolve_organization(procs[p].request)
        users == {u \in db.users : u.email = email}
    IN
    /\ procs[p].org = org
    /\ \E u \in db'.users :
        /\ u.email = email
        /\ procs[p].user = u
        /\ IF users = {}
           THEN db'.users = db.users \cup {u} /\ u.password_hash = None
           ELSE db'.users = db.users /\ users = {u}
        /\ LET had == {m \in db.memberships :
                            m.user_id = u.id /\ m.org_id = org.id}
           IN  IF had = {}
               THEN db'.memberships =
                        db.memberships \cup {MembershipRow(u.id, org.id, "member")}
               ELSE db'.memberships = db.memberships
    /\ db'.orgs = db.orgs /\ db'.tokens = db.tokens /\ db'.otps = db.otps

\* The sign-in in slot p returns: 200 with an access token for (its user,
\* the resolved organization, the role of that user's membership there) and
\* a refresh token whose record is the one row added, bound to the same
\* user and organization.
GoogleReturnsPair(p) ==
    /\ GoogleEnds(p, {200})
    /\ LET r == log'[Len(log')]
           claims == verify_token(r.access_token)
           email == verify_google_token(procs[p].request.id_token).email
           org == resolve_organization(procs[p].request)
       IN
        \E u \in db.users, m \in db.memberships :
            /\ u.email = email
            /\ m.user_id = u.id /\ m.org_id = org.id
            /\ claims # None
            /\ claims.user_id = u.id
            /\ claims.org_id = org.id
            /\ claims.role = m.role
            /\ \E row \in db'.tokens \ db.tokens :
                /\ db'.tokens = db.tokens \cup {row}
                /\ row.token_hash = hash_token(r.refresh_token)
                /\ row.user_id = u.id /\ row.org_id = org.id
                /\ ~row.revoked
    /\ db'.users = db.users /\ db'.memberships = db.memberships

\* C20: a Google sign-in succeeds only through the commit that keeps or adds
\* the user of the verified email and keeps (with its role) or adds (as
\* member) that user's membership in the resolved organization, followed by
\* the step that returns a token pair for (user, resolved organization, that
\* membership's role); no other step changes the store.
C20_GoogleFindOrCreate ==
    [][\A p \in Procs :
        GoogleSteps(p) =>
            /\ (procs[p].pc = "commit" /\ procs'[p] # Idle) =>
                GoogleFindsOrCreates(p) /\ procs'[p].pc = "commit_token"
            /\ procs[p].pc = "commit_token" => GoogleReturnsPair(p)
            /\ procs[p].pc \notin {"commit", "commit_token"} =>
                db' = db /\ ~GoogleEnds(p, {200})
            /\ (procs[p].pc = "commit" /\ procs'[p] = Idle) =>
                db' = db /\ GoogleEnds(p, {500})]_vars

\* C20's case: the founder of Acme signed in at Acme and stayed admin, and a
\* sign-in created a membership with role member.
C20_Witness ==
    \E i, j \in DOMAIN log :
        /\ log[i].op = "google_login" /\ log[i].status = 200
        /\ log[i].request.id_token.email = "a@x.com"
        /\ log[i].access_token.org_id = 1
        /\ log[i].access_token.role = "admin"
        /\ log[j].op = "google_login" /\ log[j].status = 200
        /\ log[j].access_token.role = "member"
        /\ MembershipRow(log[j].access_token.user_id,
                         log[j].access_token.org_id, "member")
                \in db.memberships

(***************************************************************************)
(* Login and verify-otp for users with two memberships, one and none.      *)
(***************************************************************************)
\* The store of two organizations after the founder of Acme joined Beta by
\* Google sign-in, with a third password user, c@x.com, whose membership
\* row is no longer in the database.
StoreOfMemberships ==
    /\ db = [EmptyDb EXCEPT
                !.orgs = {OrganizationRow(1, "Acme", "acme"),
                          OrganizationRow(2, "Beta", "beta")},
                !.users = {UserRow(1, "a@x.com", hash_password("pw")),
                           UserRow(2, "b@x.com", hash_password("pw")),
                           UserRow(3, "c@x.com", hash_password("pw"))},
                !.memberships = {MembershipRow(1, 1, "admin"),
                                 MembershipRow(2, 2, "admin"),
                                 MembershipRow(1, 2, "member")},
                !.tokens = {RefreshTokenRow(1, 1, 1, 1),
                            RefreshTokenRow(2, 2, 2, 2),
                            RefreshTokenRow(3, 1, 2, 3)}]
    /\ ids = [orgs |-> 2, users |-> 3, otps |-> 0, tokens |-> 3, tasks |-> 0,
              raw |-> 3]

OtpMembershipsNext ==
    \/ \E p \in Procs, email \in PasswordEmails : StartLogin(p, email, "pw")
    \/ \E p \in Procs : RateGet(p)
    \/ \E p \in Procs : RateWrite(p)
    \/ \E p \in Procs : LoginFindUser(p)
    \/ \E p \in Procs : LoginCommitOtp(p)
    \/ \E p \in Procs, email \in PasswordEmails, code \in OtpCodes :
            StartVerifyOtp(p, email, code)
    \/ \E p \in Procs : VerifyFindUser(p)
    \/ \E p \in Procs : VerifyFindOtp(p)
    \/ \E p \in Procs : VerifyFindMembership(p)
    \/ \E p \in Procs : VerifyCommit(p)
    \/ OtpTick

InitOtpMemberships == InitCommon /\ StoreOfMemberships /\ mode = "conc"

\* Login and verify-otp calls of these users, interleaved at every await.
SpecOtpMemberships == InitOtpMemberships /\ [][OtpMembershipsNext]_vars

\* The memberships of the user with this email.
MembershipsOf(email) ==
    {m \in db.memberships : \E u \in db.users : u.email = email /\ m.user_id = u.id}

\* C18: for a user with more than one membership, the first verify-otp that
\* presents a stored, unexpired code (the user's only outstanding OTP with
\* that code) issues a token pair whose access token carries the org_id and
\* the role of one of the user's memberships, and consumes the OTP.
C18_MultiMembershipVerifies ==
    \A i, j \in DOMAIN log :
        ( /\ i < j /\ IsVerify(j) /\ StoredFor(i, j)
          /\ Outstanding(i, j)
          /\ ~\E k \in (1..(j - 1)) \ {i} :
                StoredFor(k, j) /\ Outstanding(k, j)
          /\ Cardinality(MembershipsOf(log[j].email)) > 1 )
            => /\ Verified(j)
               /\ log[j].otp_id = log[i].otp_id
               /\ \E m \in MembershipsOf(log[j].email) :
                    /\ log[j].access_token.org_id = m.org_id
                    /\ log[j].access_token.role = m.role
               /\ \E o \in db.otps : o.id = log[i].otp_id /\ o.consumed # -1

\* The verify-otp call in slot p takes a step.
VerifySteps(p) == procs[p].op = "verify_otp" /\ procs'[p] # procs[p]

\* The verify-otp call in slot p ends with the given status.
VerifyEnds(p, statuses) ==
    /\ procs'[p] = Idle
    /\ Len(log') = Len(log) + 1
    /\ log'[Len(log')].op = "verify_otp"
    /\ log'[Len(log')].email = procs[p].email
    /\ log'[Len(log')].code = procs[p].code
    /\ log'[Len(log')].status \in statuses

\* C19: a verify-otp call that found a valid OTP for a user without any
\* membership ends with 400 and no tokens, and the store after it is the
\* store before it: the OTP is still unconsumed and no refresh token was
\* added.  No step of verify-otp before its final commit changes the store.
C19_NoMembershipRollsBack ==
    [][\A p \in Procs :
        VerifySteps(p) =>
            /\ ( /\ procs[p].pc = "find_membership"
                 /\ MembershipsOf(procs[p].email) = {} )
                    => /\ VerifyEnds(p, {400})
                       /\ {"access_token", "refresh_token"}
                            \cap DOMAIN log'[Len(log')] = {}
                       /\ db' = db
                       /\ \E o \in db'.otps :
                            o.id = procs[p].otp.id /\ o.consumed = -1
            /\ VerifyEnds(p, {400}) =>
                /\ procs[p].pc = "find_membership"
                /\ MembershipsOf(procs[p].email) = {}
            /\ procs[p].pc # "commit" => db' = db]_vars

\* C19's case: a login stored an OTP for the user without membership, two
\* verify-otp calls with its code both got 400, and the OTP is unconsumed
\* with the refresh tokens as they were.
C19_Witness ==
    /\ Cardinality(db.tokens) = 3
    /\ \E i, j, k \in DOMAIN log :
        /\ i < j /\ j < k
        /\ IsVerify(j) /\ StoredFor(i, j) /\ log[j].status = 400
        /\ IsVerify(k) /\ StoredFor(i, k) /\ log[k].status = 400
        /\ MembershipsOf(log[i].email) = {}
        /\ \E o \in db.otps : o.id = log[i].otp_id /\ o.consumed = -1

\* C21: a Google sign-in whose id token does not verify ends with 401, one
\* whose request resolves no organization ends with 400, both at the first
\* step and with the store as it was (no user, membership or refresh token
\* added); 401 and 400 arise nowhere else, and a sign-in that returns a
\* token pair had its id token verified and an organization resolved.
C21_GoogleFailureCreatesNothing ==
    [][\A p \in Procs :
        GoogleSteps(p) =>
            LET request == procs[p].request
                user_info == verify_google_token(request.id_token)
                org == resolve_organization(request)
            IN
            /\ procs[p].pc = "resolve" =>
                /\ user_info = None <=> GoogleEnds(p, {401})
                /\ (user_info # None /\ org = None) <=> GoogleEnds(p, {400})
                /\ db' = db /\ ids' = ids
            /\ GoogleEnds(p, {400, 401}) =>
                /\ procs[p].pc = "resolve"
                /\ db' = db /\ ids' = ids
                /\ {"access_token", "refresh_token"}
                        \cap DOMAIN log'[Len(log')] = {}
            /\ GoogleEnds(p, {200}) =>
                /\ user_info # None /\ org # None
                /\ procs[p].org = org
                /\ procs[p].user.email = user_info.email]_vars

\* C21's case: a sign-in was refused with 401, another with 400 although its
\* id token verified, a third returned a token pair, and the users and
\* refresh tokens are those of the start plus what the successful one added.
C21_Witness ==
    /\ Cardinality(db.tokens) = 3
    /\ Cardinality(db.users) <= 3
    /\ \E i, j, k \in DOMAIN log :
        /\ log[i].op = "google_login" /\ log[i].status = 401
        /\ log[j].op = "google_login" /\ log[j].status = 400
        /\ verify_google_token(log[j].request.id_token) # None
        /\ verify_google_token(log[j].request.id_token).email = "g@x.com"
        /\ ~\E u \in db.users : u.email = "g@x.com"
        /\ log[k].op = "google_login" /\ log[k].status = 200

(***************************************************************************)
(* Claims about logout and rejected refresh calls.                         *)
(***************************************************************************)
\* The logout call in slot p returns.
LogoutReturns(p) == procs[p].op = "logout" /\ procs'[p] = Idle

\* C22: with calls served one at a time, every logout returns the same 200
\* response, whatever the state of the presented token; when it returns,
\* the record with the token's hash, if any, is revoked and nothing else
\* has changed, so a logout of a revoked or unknown token changes nothing;
\* and a refresh with a token presented to an earlier logout gets 401.
C22_LogoutIdempotent ==
    /\ [](\A i \in DOMAIN log :
            log[i].op = "logout" =>
                /\ log[i].status = 200
                /\ log[i].message = "Logged out successfully"
                /\ \A j \in DOMAIN log :
                    ( /\ i < j /\ log[j].op = "refresh"
                      /\ log[j].token = log[i].token )
                        => log[j].status = 401)
    /\ [][\A p \in Procs :
            /\ LogoutReturns(p) =>
                /\ db'.tokens =
                    {IF r.token_hash = hash_token(procs[p].token)
                     THEN [r EXCEPT !.revoked = TRUE]
                     ELSE r : r \in db.tokens}
                /\ db' = [db EXCEPT !.tokens = db'.tokens]
                /\ ids' = ids
            /\ ( /\ procs[p].op = "logout" /\ procs'[p] # procs[p]
                 /\ procs'[p] # Idle ) => db' = db]_vars

\* C22's case: a live token was logged out, logged out again, and then
\* refused by refresh; an unknown token was never presented here, the
\* record is revoked.
C22_Witness ==
    /\ \E i, j, k \in DOMAIN log :
        /\ i < j /\ j < k
        /\ log[i].op = "logout" /\ log[j].op = "logout"
        /\ log[i].token = 1 /\ log[j].token = 1
        /\ log[k].op = "refresh" /\ log[k].token = 1 /\ log[k].status = 401
    /\ \E r \in db.tokens : r.token_hash = hash_token(1) /\ r.revoked

(***************************************************************************)
(* The tenant resolver and verify_token over more Host headers and bearer  *)
(* tokens: list requests served one at a time over the two organizations.  *)
(***************************************************************************)
\* Host headers: a tenant's, another tenant's, one with an unknown leftmost
\* label, the "www" host, one with an empty leftmost label, one without a
\* dot.
ResolveHosts ==
    {<<"acme", "example", "local">>, <<"beta", "example", "local">>,
     <<"nope", "example", "local">>, <<"www", "example", "local">>,
     <<"", "example", "local">>, <<"test">>}

\* Bearer tokens: none; the token user 1 got at time 0; the same claims
\* signed with another key; the same claims and key under another issuer;
\* a token of the key without an org_id claim; and one whose org_id names
\* no organization.
ResolveAuthorizations ==
    {None,
     AccessTokenFromStart([user_id |-> 1, org_id |-> 1, role |-> "admin"]),
     [AccessTokenFromStart([user_id |-> 1, org_id |-> 1, role |-> "admin"])
        EXCEPT !.sig = "other-key"],
     [AccessTokenFromStart([user_id |-> 1, org_id |-> 1, role |-> "admin"])
        EXCEPT !.iss = "other-issuer"],
     AccessTokenFromStart([user_id |-> 1, role |-> "admin"]),
     AccessTokenFromStart([user_id |-> 1, org_id |-> 3, role |-> "admin"])}

ResolveRequests ==
    {[host |-> h, authorization |-> a, org_id |-> 1, status_filter |-> None,
      assignee |-> None, cursor |-> None, limit |-> 20] :
        h \in ResolveHosts, a \in ResolveAuthorizations}

ResolveNext ==
    \/ \E p \in Procs, request \in ResolveRequests :
            tenant_middleware(p, "list_tasks", request)
    \/ \E p \in Procs : require_auth(p)
    \/ \E p \in Procs : list_tasks(p)
    \/ TaskTick

InitResolve == InitCommon /\ StoreTwoOrgs /\ mode = "seq"

SpecResolve == InitResolve /\ [][ResolveNext]_vars

\* Slot p takes the step in which the middleware resolves the organization.
ResolveStep(p) == procs[p] = Idle /\ procs'[p] # Idle

\* Slot p takes the step of require_auth.
AuthStep(p) ==
    /\ procs[p] # Idle /\ procs[p].pc = "require_auth"
    /\ procs'[p] # procs[p]

\* The token is signed with the configured secret, carries the configured
\* issuer and has not expired.
Genuine(token) ==
    token.sig = JWT_SECRET /\ token.iss = JWT_ISSUER /\ token.exp > now

\* C23: a bearer token that fails any one of signature, issuer and expiry is
\* rejected: the resolver derives no organization from it (a Host that names
\* no tenant resolves to none) and require_auth derives no user from it (the
\* request ends with 401).
C23_VerifyTokenFailsClosed ==
    [][\A p \in Procs :
        /\ ResolveStep(p) =>
            LET request == procs'[p].request IN
            ( /\ request.authorization # None
              /\ ~Genuine(request.authorization)
              /\ NoTenantInHost(request.host) )
                => procs'[p].current_org = None
        /\ AuthStep(p) =>
            LET request == procs[p].request IN
            (request.authorization # None /\ ~Genuine(request.authorization))
                => /\ procs'[p] = Idle
                   /\ log'[Len(log')].status = 401]_vars

\* What the code does hold to: signature and expiry.
VerifyTokenChecksSignatureAndExpiry ==
    [][\A p \in Procs :
        /\ ResolveStep(p) =>
            LET request == procs'[p].request IN
            ( /\ request.authorization # None
              /\ ~( /\ request.authorization.sig = JWT_SECRET
                    /\ request.authorization.exp > now )
              /\ NoTenantInHost(request.host) )
                => procs'[p].current_org = None
        /\ AuthStep(p) =>
            LET request == procs[p].request IN
            ( /\ request.authorization # None
              /\ ~( /\ request.authorization.sig = JWT_SECRET
                    /\ request.authorization.exp > now ) )
                => /\ procs'[p] = Idle
                   /\ log'[Len(log')].status = 401]_vars

\* C24: when the Host has a dot and its leftmost label is non-empty, not
\* "www" and the subdomain of an organization, the resolver returns that
\* organization whatever the bearer token.
C24_SubdomainTakesPrecedence ==
    [][\A p \in Procs :
        ResolveStep(p) =>
            LET host == procs'[p].request.host IN
            ( /\ Len(host) > 1 /\ host[1] # "" /\ host[1] # "www"
              /\ \E o \in db.orgs : o.subdomain = host[1] )
                => /\ procs'[p].current_org \in db.orgs
                   /\ procs'[p].current_org.subdomain = host[1]]_vars

\* C24's case: a request under beta's Host with a verifying token of
\* organization 1 was resolved to beta.
C24_Witness ==
    \E p \in Procs :
        /\ procs[p] # Idle /\ procs[p].pc = "require_auth"
        /\ procs[p].request.host[1] = "beta"
        /\ procs[p].request.authorization # None
        /\ verify_token(procs[p].request.authorization) # None
        /\ "org_id" \in DOMAIN procs[p].request.authorization
        /\ procs[p].request.authorization.org_id = 1
        /\ procs[p].current_org # None
        /\ procs[p].current_org.id = 2

\* The organizations a request's bearer token points to: those with the id
\* in the org_id claim of a token that verifies.
OrgsOfToken(request) ==
    {o \in db.orgs :
        /\ request.authorization # None
        /\ verify_token(request.authorization) # None
        /\ "org_id" \in DOMAIN request.authorization
        /\ o.id = request.authorization.org_id}

\* C25: when the Host names no tenant (no dot, leftmost label empty or
\* "www", or no organization with that subdomain), the resolver returns the
\* organization with the id in the org_id claim of a verifying bearer token,
\* and none when there is no such token, claim or organization.
C25_TokenFallback ==
    [][\A p \in Procs :
        ResolveStep(p) =>
            LET request == procs'[p].request IN
            NoTenantInHost(request.host) =>
                IF OrgsOfToken(request) = {}
                THEN procs'[p].current_org = None
                ELSE procs'[p].current_org \in OrgsOfToken(request)]_vars

\* C25's case: under the "www" Host a verifying token of organization 1 was
\* resolved to it, and under a Host with an unknown label a token without
\* an org_id claim was resolved to none.
C25_Witness ==
    /\ \E i \in DOMAIN log :
        /\ log[i].request.host[1] = "www"
        /\ log[i].request.authorization # None
        /\ "org_id" \in DOMAIN log[i].request.authorization
        /\ log[i].current_org # None
        /\ log[i].current_org.id = log[i].request.authorization.org_id
    /\ \E p \in Procs :
        /\ procs[p] # Idle /\ procs[p].pc = "require_auth"
        /\ procs[p].request.host[1] = "nope"
        /\ procs[p].request.authorization # None
        /\ "org_id" \notin DOMAIN procs[p].request.authorization
        /\ verify_token(procs[p].request.authorization) # None
        /\ procs[p].current_org = None

(***************************************************************************)
(* Task requests for which the middleware resolves no organization: the    *)
(* resolver found none, or its session raised and the except branch of the *)
(* middleware stored None.                                                 *)
(***************************************************************************)
\* The except branch of the middleware: resolution raised (the middleware's
\* own session failed), current_org is None and the request goes on.
tenant_middleware_raised(p, op, request) ==
    /\ CanStart(p)
    /\ Started(TaskOps) < MaxTaskReqs
    /\ procs' = [procs EXCEPT ![p] =
                    [op |-> op, pc |-> "require_auth", request |-> request,
                     current_org |-> None]]
    /\ UNCHANGED <<now, mode, redis, log, dbVars, taskVars, wsVars>>

\* Requests under the test client's Host: without a token, with the token
\* admin 1 got at time 0, and with a token of the key that has no org_id
\* claim.
NoOrgHeaders ==
    [host : {<<"test">>},
     authorization :
        {None,
         AccessTokenFromStart([user_id |-> 1, org_id |-> 1, role |-> "admin"]),
         AccessTokenFromStart([user_id |-> 1, role |-> "admin"])}]

\* Task ids of the path: a stored task and one that is not stored.
NoOrgTaskIds == {1, 3}

NoOrgRequests(op) ==
    CASE op = "list_tasks" ->
            {h @@ [org_id |-> 1, status_filter |-> None, assignee |-> None,
                   cursor |-> None, limit |-> 20] : h \in NoOrgHeaders}
      [] op = "create_task" ->
            {h @@ [org_id |-> 1,
                   task_data |-> [title |-> "New", status |-> "todo",
                                  assignee_id |-> None]] : h \in NoOrgHeaders}
      [] op = "update_task" ->
            {h @@ [task_id |-> i, task_data |-> [title |-> "Renamed"]] :
                h \in NoOrgHeaders, i \in NoOrgTaskIds}
      [] OTHER -> {h @@ [task_id |-> i] : h \in NoOrgHeaders, i \in NoOrgTaskIds}

NoOrgNext ==
    \/ \E p \in Procs, op \in TaskOps : \E request \in NoOrgRequests(op) :
            tenant_middleware(p, op, request)
    \/ \E p \in Procs, op \in TaskOps : \E request \in NoOrgRequests(op) :
            tenant_middleware_raised(p, op, request)
    \/ \E p \in Procs : require_auth(p)
    \/ \E p \in Procs : list_tasks(p)
    \/ \E p \in Procs : create_task(p)
    \/ \E p \in Procs : find_task(p)
    \/ \E p \in Procs : check_permissions(p)
    \/ \E p \in Procs : update_task(p)
    \/ \E p \in Procs : delete_task(p)
    \/ \E p \in Procs : publish(p)
    \/ \E p \in Procs : export_tasks(p)
    \/ TaskTick

InitNoOrg == InitCommon /\ StoreTwoOrgs /\ mode = "conc"

SpecNoOrg == InitNoOrg /\ [][NoOrgNext]_vars

\* Slot p takes a step of a task request for which no organization was
\* resolved.
NoOrgStep(p) ==
    /\ procs[p] # Idle /\ procs[p].op \in TaskOps
    /\ procs[p].current_org = None
    /\ procs'[p] # procs[p]

\* What holds of such requests: they end in a 4xx error and no step of
\* theirs writes a row, publishes an event or queues a job.
NoOrgEndsIn4xxWithoutEffect ==
    /\ [](\A i \in DOMAIN log :
            (log[i].op \in TaskOps /\ log[i].current_org = None)
                => log[i].status \in 400..499)
    /\ [][\A p \in Procs :
            NoOrgStep(p) => db' = db /\ ids' = ids /\ pub' = pub /\ jobs' = jobs
       ]_vars

\* C26: a task request for which no organization was resolved ends in a 4xx
\* error without reading, writing or queueing anything of any organization:
\* nothing is written, published or queued, and the answer is the one fixed
\* before any task is looked up, 401 for a caller that is not authenticated
\* and 400 for one that is.
C26_NoOrgHardFailure ==
    /\ [](\A i \in DOMAIN log :
            (log[i].op \in TaskOps /\ log[i].current_org = None)
                => log[i].status \in {400, 401})
    /\ [][\A p \in Procs :
            NoOrgStep(p) => db' = db /\ ids' = ids /\ pub' = pub /\ jobs' = jobs
       ]_vars

(***************************************************************************)
(* update_task and delete_task by an admin, a member and an outsider, one  *)
(* request at a time.                                                      *)
(***************************************************************************)
\* The store after register of "Acme" by a@x.com and of "Beta" by b@x.com, a
\* Google sign-in of g@x.com under acme's Host (a member of Acme), and three
\* create_task calls of Acme's admin: task 1 assigned to the member, task 2
\* to the admin, task 3 to Beta's admin (create_task takes any user id).
StoreWithMember ==
    /\ db = [EmptyDb EXCEPT
                !.orgs = {OrganizationRow(1, "Acme", "acme"),
                          OrganizationRow(2, "Beta", "beta")},
                !.users = {UserRow(1, "a@x.com", hash_password("pw")),
                           UserRow(2, "g@x.com", None),
                           UserRow(3, "b@x.com", hash_password("pw"))},
                !.memberships = {MembershipRow(1, 1, "admin"),
                                 MembershipRow(2, 1, "member"),
                                 MembershipRow(3, 2, "admin")},
                !.tokens = {RefreshTokenRow(1, 1, 1, 1),
                            RefreshTokenRow(2, 2, 1, 2),
                            RefreshTokenRow(3, 3, 2, 3)},
                !.tasks = {TaskRow(1, 1, "Member task", "todo", 2),
                           TaskRow(2, 1, "Other task", "todo", 1),
                           TaskRow(3, 1, "Outside task", "todo", 3)}]
    /\ ids = [orgs |-> 2, users |-> 3, otps |-> 0, tokens |-> 3, tasks |-> 3,
              raw |-> 3]

\* Requests under the test client's Host and under acme's, with the tokens
\* the three users got at time 0.
PermissionHeaders ==
    [host : {<<"test">>, <<"acme", "example", "local">>},
     authorization :
        {AccessTokenFromStart([user_id |-> 1, org_id |-> 1, role |-> "admin"]),
         AccessTokenFromStart([user_id |-> 2, org_id |-> 1, role |-> "member"]),
         AccessTokenFromStart([user_id |-> 3, org_id |-> 2, role |-> "admin"])}]

PermissionTaskIds == {1, 2, 3}

PermissionNext ==
    \/ \E p \in Procs, h \in PermissionHeaders, i \in PermissionTaskIds :
            tenant_middleware(p, "update_task",
                h @@ [task_id |-> i, task_data |-> [title |-> "Renamed"]])
    \/ \E p \in Procs, h \in PermissionHeaders, i \in PermissionTaskIds :
            tenant_middleware(p, "delete_task", h @@ [task_id |-> i])
    \/ \E p \in Procs : require_auth(p)
    \/ \E p \in Procs : find_task(p)
    \/ \E p \in Procs : check_permissions(p)
    \/ \E p \in Procs : update_task(p)
    \/ \E p \in Procs : delete_task(p)
    \/ \E p \in Procs : publish(p)
    \/ TaskTick

InitPermission == InitCommon /\ StoreWithMember /\ mode = "seq"

SpecPermission == InitPermission /\ [][PermissionNext]_vars

\* Slot p takes a step of update_task or delete_task.
ModifyStep(p) ==
    /\ procs[p] # Idle /\ procs[p].op \in {"update_task", "delete_task"}
    /\ procs'[p] # procs[p]

\* The user has the role in the organization.
HasRole(user, org_id, roles) ==
    \E m \in db.memberships :
        m.user_id = user.id /\ m.org_id = org_id /\ m.role \in roles

\* The steps after the permission check carry the call out: the commit
\* changes or deletes the task and the publish step answers 200; and a step
\* that ends the call otherwise changes no task and publishes nothing.
ModifyCarriedOutOrWithoutEffect(p) ==
    /\ procs[p].pc = "commit" =>
        /\ procs'[p] # Idle /\ procs'[p].pc = "publish"
        /\ IF procs[p].op = "delete_task"
           THEN db'.tasks = {t \in db.tasks : t.id # procs[p].task.id}
           ELSE \E t \in db'.tasks :
                    /\ t.id = procs[p].task.id
                    /\ t.title = procs[p].request.task_data.title
    /\ procs[p].pc = "publish" =>
        /\ procs'[p] = Idle /\ log'[Len(log')].status = 200
        /\ Len(pub') = Len(pub) + 1
    /\ (procs'[p] = Idle /\ log'[Len(log')].status # 200) =>
        /\ db' = db /\ pub' = pub

\* What holds: the rule as the claim states it among members of the task's
\* organization.
ModifyPermissionAmongMembers ==
    [][\A p \in Procs :
        ModifyStep(p) =>
            /\ ModifyCarriedOutOrWithoutEffect(p)
            /\ procs[p].pc = "check_permissions" =>
                LET user == procs[p].current_user
                    task == procs[p].task
                    admin == HasRole(user, task.org_id, {"admin"})
                    member == HasRole(user, task.org_id, {"admin", "member"})
                    assignee == task.assignee_id = user.id
                IN  /\ (member /\ (admin \/ assignee)) =>
                        procs'[p] # Idle /\ procs'[p].pc = "commit"
                    /\ (member /\ ~admin /\ ~assignee) =>
                        procs'[p] = Idle /\ log'[Len(log')].status = 403
       ]_vars

\* C27: with requests served one at a time, update_task and delete_task of a
\* task of the resolved organization succeed for a caller who is admin in
\* the task's organization or the task's assignee, and end with 403 for a
\* member of that organization who is not the assignee; a rejected call
\* leaves the task unchanged and publishes no event.
C27_ModifyPermission ==
    [][\A p \in Procs :
        ModifyStep(p) =>
            /\ ModifyCarriedOutOrWithoutEffect(p)
            /\ procs[p].pc = "check_permissions" =>
                LET user == procs[p].current_user
                    task == procs[p].task
                    admin == HasRole(user, task.org_id, {"admin"})
                    member == HasRole(user, task.org_id, {"admin", "member"})
                    assignee == task.assignee_id = user.id
                IN  /\ (admin \/ assignee) =>
                        procs'[p] # Idle /\ procs'[p].pc = "commit"
                    /\ (member /\ ~admin /\ ~assignee) =>
                        procs'[p] = Idle /\ log'[Len(log')].status = 403
       ]_vars

(***************************************************************************)
(* Cursor pagination of list_tasks over a task set that does not change:   *)
(* only list requests, each with no cursor or a next_cursor of an earlier  *)
(* response.                                                               *)
(***************************************************************************)
\* The store one minute after the registers of StoreTwoOrgs: Acme has two
\* tasks created at time 0 (one of them done) and one created now, Beta
\* has one; ids do not follow created_at, which the client sets at flush.
StoreOfPages ==
    /\ db = [EmptyDb EXCEPT
                !.orgs = {OrganizationRow(1, "Acme", "acme"),
                          OrganizationRow(2, "Beta", "beta")},
                !.users = {UserRow(1, "a@x.com", hash_password("pw")),
                           UserRow(2, "b@x.com", hash_password("pw"))},
                !.memberships = {MembershipRow(1, 1, "admin"),
                                 MembershipRow(2, 2, "admin")},
                !.tasks = {TaskRow(1, 1, "Newest", "todo", 1),
                           [TaskRow(2, 1, "Old", "todo", 1) EXCEPT
                                !.created_at = 0, !.updated_at = 0],
                           [TaskRow(3, 1, "Old and done", "done", 1) EXCEPT
                                !.created_at = 0, !.updated_at = 0],
                           [TaskRow(4, 2, "Beta task", "todo", 2) EXCEPT
                                !.created_at = 0, !.updated_at = 0]}]
    /\ ids = [orgs |-> 2, users |-> 2, otps |-> 0, tokens |-> 0, tasks |-> 4,
              raw |-> 0]

\* limit: Query(20, le=100) has no lower bound.
PageLimits == {0, 1, 2}

\* The next_cursor values of the responses so far.
CursorsReceived ==
    {log[i].next_cursor : i \in {j \in DOMAIN log : log[j].status = 200}}

PageRequests ==
    {[host |-> <<"test">>,
      authorization |->
        AccessTokenFromStart([user_id |-> 1, org_id |-> 1, role |-> "admin"]),
      org_id |-> 1, status_filter |-> s, assignee |-> a, cursor |-> c,
      limit |-> l] :
        s \in {None, [str |-> "todo"]}, a \in {None, [int |-> 0]},
        c \in {None} \cup CursorsReceived, l \in PageLimits}

PagesNext ==
    \/ \E p \in Procs, request \in PageRequests :
            tenant_middleware(p, "list_tasks", request)
    \/ \E p \in Procs : require_auth(p)
    \/ \E p \in Procs : list_tasks(p)

InitPages ==
    /\ now = Minutes(1)
    /\ mode = "seq"
    /\ redis = NoEntry
    /\ procs = [p \in Procs |-> Idle]
    /\ log = <<>>
    /\ pub = <<>>
    /\ jobs = <<>>
    /\ NoSockets
    /\ StoreOfPages

SpecPages == InitPages /\ [][PagesNext]_vars

\* The organization's tasks that match the filters of the request.
Matching(request) ==
    {t \in db.tasks :
        /\ t.org_id = request.org_id
        /\ request.status_filter # None =>
                t.status = request.status_filter.str
        /\ request.assignee # None => t.assignee_id = request.assignee.int}

\* The log indices c[1], ..., c[k] are pages got by following next_cursor
\* from a first page.
IsPageChain(c, k) ==
    /\ \A m \in 1..k : log[c[m]].op = "list_tasks" /\ log[c[m]].status = 200
    /\ log[c[1]].request.cursor = None
    /\ \A m \in 1..(k - 1) :
        /\ c[m] < c[m + 1]
        /\ log[c[m]].next_cursor # None
        /\ log[c[m + 1]].request =
                [log[c[m]].request EXCEPT !.cursor = log[c[m]].next_cursor]

PageSet(i) == {log[i].tasks[n] : n \in DOMAIN log[i].tasks}

\* The pages of a chain are disjoint and in descending (created_at, id)
\* order, each of at most limit tasks, all of them matching tasks; and
\* after each page has_more is true and next_cursor present exactly when
\* matching tasks remain that no page so far has listed.
PagesAreSound(c, k) ==
    LET request == log[c[1]].request
        listed(m) == UNION {PageSet(c[n]) : n \in 1..m}
    IN
    \A m \in 1..k :
        LET page == log[c[m]].tasks
            remain == Matching(request) \ listed(m)
        IN
        /\ Len(page) <= request.limit
        /\ \A a, b \in DOMAIN page : a < b => ListedBefore(page[a], page[b])
        /\ \A n \in 1..(m - 1) :
            \A t \in PageSet(c[n]), u \in PageSet(c[m]) : ListedBefore(t, u)
        /\ PageSet(c[m]) \subseteq Matching(request)
        /\ log[c[m]].has_more <=> remain # {}
        /\ (log[c[m]].next_cursor # None) <=> remain # {}

\* What holds: the claim for a limit of at least one and filters that are
\* absent or neither empty nor 0.
PagesSoundForPositiveLimit ==
    \A k \in 1..Len(log) :
        \A c \in [1..k -> DOMAIN log] :
            ( /\ IsPageChain(c, k)
              /\ log[c[1]].request.limit >= 1
              /\ log[c[1]].request.assignee = None )
                => PagesAreSound(c, k)

\* C28: over an unchanging task set the pages got by following next_cursor
\* from the first page are pairwise disjoint, in descending (created_at, id)
\* order, of at most limit tasks each, and list exactly the organization's
\* tasks that match the filters; has_more is true and next_cursor present
\* exactly when tasks remain after the page.
C28_CursorPagination ==
    \A k \in 1..Len(log) :
        \A c \in [1..k -> DOMAIN log] :
            IsPageChain(c, k) => PagesAreSound(c, k)

\* With limit 0 a page says has_more without a cursor to go on with.
PagesCursorPresentWhenMore ==
    \A i \in DOMAIN log :
        ( /\ log[i].op = "list_tasks" /\ log[i].status = 200
          /\ log[i].request.assignee = None )
            => (log[i].has_more => log[i].next_cursor # None)

(***************************************************************************)
(* Claims about the family of a refresh token and rejected refresh calls.  *)
(***************************************************************************)
\* The refresh token rows that descend by rotation from the row the register
\* before the run stored: under RefreshNext every row but that one is
\* inserted by a refresh call of a row already stored, so all rows do.
TokenFamily == db.tokens

\* C29: among the refresh tokens that descend by rotation from one login
\* completion at most one is unrevoked, however refresh and logout calls
\* interleave.
C29_OneUnrevokedPerFamily ==
    Cardinality({r \in TokenFamily : ~r.revoked}) <= 1
\* The store of StoreAfterRegister with a second user, g@x.com, who holds
\* the live refresh token 2 of Acme and whose membership row is gone; no
\* endpoint removes a membership, the row was deleted in the database.
StoreWithoutMembership ==
    /\ db = [EmptyDb EXCEPT
                !.orgs = {OrganizationRow(1, "Acme", "acme")},
                !.users = {UserRow(1, "a@x.com", hash_password("pw")),
                           UserRow(2, "g@x.com", None)},
                !.memberships = {MembershipRow(1, 1, "admin")},
                !.tokens = {RefreshTokenRow(1, 1, 1, 1),
                            RefreshTokenRow(2, 2, 1, 2)}]
    /\ ids = [orgs |-> 1, users |-> 2, otps |-> 0, tokens |-> 2, tasks |-> 0,
              raw |-> 2]

InitRefreshGone == InitCommon /\ StoreWithoutMembership /\ mode = "conc"

SpecRefreshGone == InitRefreshGone /\ [][RefreshNext]_vars

\* Slot p takes a step of a refresh call.
RefreshStep(p) == procs[p].op = "refresh" /\ procs'[p] # procs[p]

\* C30: a refresh call is rejected with 401 when the presented token is
\* unknown, expired or revoked, or when the user or the membership of its
\* record is missing; the rejected call returns no tokens and none of its
\* steps changes a record, so the live token of a user whose membership is
\* gone stays unrevoked.
C30_RejectedRefreshChangesNothing ==
    /\ [](\A i \in DOMAIN log :
            (IsRefresh(i) /\ log[i].status # 200) =>
                /\ log[i].status = 401
                /\ DOMAIN log[i] \cap {"access_token", "refresh_token"} = {})
    /\ [][\A p \in Procs :
            RefreshStep(p) =>
                /\ ( /\ procs[p].pc = "find_token"
                     /\ ~\E r \in db.tokens :
                            /\ r.token_hash = hash_token(procs[p].token)
                            /\ r.expires_at > now /\ ~r.revoked )
                    => procs'[p] = Idle /\ log'[Len(log')].status = 401
                /\ ( /\ procs[p].pc = "find_membership"
                     /\ \/ ~\E u \in db.users :
                                u.id = procs[p].token_record.user_id
                        \/ ~\E m \in db.memberships :
                                /\ m.user_id = procs[p].token_record.user_id
                                /\ m.org_id = procs[p].token_record.org_id )
                    => procs'[p] = Idle /\ log'[Len(log')].status = 401
                /\ (procs'[p] = Idle /\ log'[Len(log')].status # 200)
                    => db' = db /\ ids' = ids
                /\ procs'[p] # Idle => db' = db /\ ids' = ids]_vars

\* C30's case: refresh calls were rejected for a revoked token and for the
\* token of the user without a membership, and that token's record is still
\* unrevoked.
C30_Witness ==
    /\ \E i \in DOMAIN log :
        /\ IsRefresh(i) /\ log[i].token = 2 /\ log[i].status = 401
        /\ log[i].detail = "User or membership not found"
    /\ \E i \in DOMAIN log, r \in db.tokens :
        /\ IsRefresh(i) /\ log[i].token = 1 /\ log[i].status = 401
        /\ r.token_hash = hash_token(1) /\ r.revoked
    /\ \E r \in db.tokens : r.token_hash = hash_token(2) /\ ~r.revoked

(***************************************************************************)
(* Claims about what a successful refresh writes and returns.              *)
(***************************************************************************)
\* The step of slot p ends a refresh call with the 200 response.
RefreshSucceeds(p) ==
    /\ procs[p].op = "refresh" /\ procs'[p] = Idle
    /\ log'[Len(log')].status = 200

\* C31: the step in which a refresh succeeds is one commit that revokes the
\* presented record and inserts one new record with the presented record's
\* user_id and org_id, whose hash is that of the returned refresh token; the
\* returned access token carries that user_id and org_id and the role of the
\* stored membership; no other step of a refresh call changes a record.
C31_RefreshBindsSameUserOrg ==
    [][\A p \in Procs :
        /\ RefreshSucceeds(p) =>
            LET old == procs[p].token_record
                r == log'[Len(log')]
                added == db'.tokens \ db.tokens
                new == {n \in added : n.token_hash = hash_token(r.refresh_token)}
            IN
            /\ \A o \in db'.tokens : o.id = old.id => o.revoked
            /\ Cardinality(new) = 1
            /\ \A n \in new :
                /\ n.user_id = old.user_id /\ n.org_id = old.org_id
                /\ ~n.revoked /\ n.expires_at = now + Days(REFRESH_TTL_DAYS)
            /\ added \ new \subseteq {[o EXCEPT !.revoked = TRUE] : o \in db.tokens}
            /\ r.access_token.user_id = old.user_id
            /\ r.access_token.org_id = old.org_id
            /\ \E m \in db.memberships :
                /\ m.user_id = old.user_id /\ m.org_id = old.org_id
                /\ r.access_token.role = m.role
            /\ verify_token(r.access_token) # None
        /\ (procs[p].op = "refresh" /\ procs'[p] # procs[p]
                /\ ~RefreshSucceeds(p)) => db' = db /\ ids' = ids]_vars

\* C31's case: a refresh of the register's token returned a pair, the
\* presented record is revoked and the new record of the same user and
\* organization is stored unrevoked.
C31_Witness ==
    \E i \in DOMAIN log :
        /\ IsRefresh(i) /\ log[i].status = 200 /\ log[i].token = 1
        /\ \E o, n \in db.tokens :
            /\ o.token_hash = hash_token(1) /\ o.revoked
            /\ n.token_hash = hash_token(log[i].refresh_token)
            /\ n.user_id = o.user_id /\ n.org_id = o.org_id /\ ~n.revoked

\* What holds: a refresh rejected at the token lookup (unknown, expired or
\* revoked token) gets one and the same answer.
RefreshTokenRejectionsUniform ==
    [][\A p \in Procs :
        ( /\ procs[p].op = "refresh" /\ procs[p].pc = "find_token"
          /\ procs'[p] = Idle )
            => ClientVisible(log'[Len(log')]) =
                    [status |-> 401, detail |-> "Invalid refresh token"]]_vars

\* C32: every rejected refresh returns the same client-visible error,
\* whichever check failed: unknown hash, expired, revoked, or user or
\* membership missing.
C32_RefreshRejectionsUniform ==
    \A i, j \in DOMAIN log :
        ( /\ IsRefresh(i) /\ log[i].status # 200
          /\ IsRefresh(j) /\ log[j].status # 200 )
            => ClientVisible(log[i]) = ClientVisible(log[j])

(***************************************************************************)
(* The order of a password login session.                                  *)
(***************************************************************************)
\* Response i carries a token.
CarriesToken(i) == DOMAIN log[i] \cap {"access_token", "refresh_token"} # {}

\* C33: on the password path a login never returns a token and a refresh
\* token record is stored only by the commit of verify_otp; every verify_otp
\* that issued a pair comes after a login of the same email that answered
\* 200 (it was let through by the limiter and its password matched the
\* stored hash) and stored the OTP the verify_otp consumed.
C33_LoginSessionOrder ==
    /\ [](\A j \in DOMAIN log :
            /\ log[j].op = "login" =>
                /\ ~CarriesToken(j)
                /\ log[j].status = 200 =>
                    \E u \in db.users :
                        /\ u.email = log[j].email
                        /\ u.password_hash # None
                        /\ verify_password(log[j].password, u.password_hash)
            /\ CarriesToken(j) => Verified(j)
            /\ Verified(j) =>
                \E i \in 1..(j - 1) :
                    /\ Stored(i)
                    /\ log[i].email = log[j].email
                    /\ log[i].otp_id = log[j].otp_id
                    /\ log[i].otp_code = log[j].code)
    /\ [][db'.tokens # db.tokens =>
            \E p \in Procs :
                /\ procs[p].op = "verify_otp" /\ procs[p].pc = "commit"
                /\ procs'[p] = Idle /\ log'[Len(log')].status = 200]_vars

\* C33's case: a login answered 200 without a token, and a later verify_otp
\* with the code it stored issued a pair.
C33_Witness ==
    \E i, j \in DOMAIN log :
        /\ i < j /\ Stored(i) /\ ~CarriesToken(i)
        /\ Verified(j) /\ CarriesToken(j)
        /\ log[i].otp_id = log[j].otp_id
        /\ Cardinality(db.tokens) = 2

(***************************************************************************)
(* update_task and delete_task when a membership's role is changed after   *)
(* the access tokens were issued.  No endpoint writes Membership.role; the *)
(* change is an UPDATE of the memberships table made in the database.      *)
(***************************************************************************)
MaxRoleChanges == 1   \* role changes in a run

\* The memberships when the access tokens of PermissionHeaders were issued.
MembershipsAtIssuance ==
    {MembershipRow(1, 1, "admin"), MembershipRow(2, 1, "member"),
     MembershipRow(3, 2, "admin")}

\* Membership.role of one row becomes the other of "admin" and "member".
RoleChange(user_id, org_id) ==
    /\ mode = "seq" => IdleAll
    /\ \E m \in db.memberships :
        /\ m.user_id = user_id /\ m.org_id = org_id
        /\ Cardinality(db.memberships \ MembershipsAtIssuance) < MaxRoleChanges
        /\ db' = [db EXCEPT !.memberships =
                    (@ \ {m}) \cup
                    {[m EXCEPT !.role = IF m.role = "admin" THEN "member"
                                        ELSE "admin"]}]
    /\ UNCHANGED <<now, mode, redis, ids, procs, log, taskVars, wsVars>>

RoleChangeNext ==
    \/ PermissionNext
    \/ \E m \in {<<1, 1>>, <<2, 1>>} : RoleChange(m[1], m[2])

SpecRoleChange == InitPermission /\ [][RoleChangeNext]_vars

\* What holds: the permission check goes by the role stored when the request
\* runs.
PermissionByStoredRole ==
    [][\A p \in Procs :
        (ModifyStep(p) /\ procs[p].pc = "check_permissions") =>
            LET user == procs[p].current_user
                task == procs[p].task
            IN  ( /\ HasRole(user, task.org_id, {"member"})
                  /\ task.assignee_id # user.id )
                    => procs'[p] = Idle /\ log'[Len(log')].status = 403]_vars

\* C34: what a request bearing an issued, unexpired access token is permitted
\* to do in update_task and delete_task goes by the role the token encodes,
\* whatever the membership's role has become since: a member of the task's
\* organization whose token says "admin" passes the permission check, and
\* one whose token says "member" and who is not the assignee gets 403.
C34_TokenRoleHoldsUntilExpiry ==
    [][\A p \in Procs :
        (ModifyStep(p) /\ procs[p].pc = "check_permissions") =>
            LET user == procs[p].current_user
                task == procs[p].task
                token == procs[p].request.authorization
            IN  HasRole(user, task.org_id, {"admin", "member"}) =>
                    /\ token.role = "admin" =>
                        procs'[p] # Idle /\ procs'[p].pc = "commit"
                    /\ (token.role = "member" /\ task.assignee_id # user.id) =>
                        procs'[p] = Idle /\ log'[Len(log')].status = 403]_vars

(***************************************************************************)
(* Register and Google sign-in calls interleaved, on the store of one      *)
(* register.                                                               *)
(***************************************************************************)
MaxUniqueReqs == 3   \* register and Google sign-in requests in a run

\* Two register bodies that collide on the subdomain; the first has the
\* email of the Google account.
UniqueRegisterBodies ==
    {[organization_name |-> "Beta", subdomain |-> "beta",
      email |-> "g@x.com", password |-> "pw"],
     [organization_name |-> "Beta Two", subdomain |-> "beta",
      email |-> "b@x.com", password |-> "pw"]}

\* Google sign-ins of g@x.com under the hosts of the two organizations.
UniqueGoogleRequests ==
    [id_token : {[aud |-> GOOGLE_CLIENT_ID, email |-> "g@x.com"]},
     host : {<<"acme", "example", "local">>, <<"beta", "example", "local">>},
     authorization : {None}]

UniqueNext ==
    \/ \E p \in Procs, request \in UniqueRegisterBodies :
            /\ Started({"register", "google_login"}) < MaxUniqueReqs
            /\ StartRegister(p, request)
    \/ \E p \in Procs, request \in UniqueGoogleRequests :
            /\ Started({"register", "google_login"}) < MaxUniqueReqs
            /\ StartGoogleLogin(p, request)
    \/ \E p \in Procs : RegisterCheckSubdomain(p)
    \/ \E p \in Procs : RegisterCheckEmail(p)
    \/ \E p \in Procs : RegisterFlushOrg(p)
    \/ \E p \in Procs : RegisterFlushUser(p)
    \/ \E p \in Procs : RegisterCommitMembership(p)
    \/ \E p \in Procs : RegisterCommitToken(p)
    \/ \E p \in Procs : GoogleResolve(p)
    \/ \E p \in Procs : GoogleFindUser(p)
    \/ \E p \in Procs : GoogleFlushUser(p)
    \/ \E p \in Procs : GoogleFindMembership(p)
    \/ \E p \in Procs : GoogleCommit(p)
    \/ \E p \in Procs : GoogleCommitToken(p)

InitUnique == InitCommon /\ StoreAfterRegister /\ mode = "conc"

SpecUnique == InitUnique /\ [][UniqueNext]_vars

\* C35: however register and Google sign-in calls interleave, no two users
\* share an email, no two organizations a subdomain, no two memberships a
\* (user, organization) pair, ids are not shared either, and the subdomain
\* of a stored organization never changes.
C35_UniquenessInvariants ==
    /\ [](/\ \A u, v \in db.users :
                (u.email = v.email \/ u.id = v.id) => u = v
          /\ \A o, q \in db.orgs :
                (o.subdomain = q.subdomain \/ o.id = q.id) => o = q
          /\ \A m, n \in db.memberships :
                (m.user_id = n.user_id /\ m.org_id = n.org_id) => m = n)
    /\ [][\A o \in db.orgs :
            \E q \in db'.orgs : q.id = o.id /\ q.subdomain = o.subdomain]_vars

\* C35's case: a call lost a race on a unique value and ended with the
\* integrity error, and the rows of the winner are stored: g@x.com is a
\* user with a membership and both organizations exist.
C35_Witness ==
    /\ \E i \in DOMAIN log :
        log[i].status = 500 /\ log[i].detail = "IntegrityError"
    /\ \E u \in db.users :
        /\ u.email = "g@x.com"
        /\ \E m \in db.memberships : m.user_id = u.id
    /\ Cardinality(db.orgs) = 2

(***************************************************************************)
(* The frame of logout.                                                    *)
(***************************************************************************)
\* C36: a step of a logout call changes at most the revoked flag of the
\* records whose hash is that of the presented token: the same record ids
\* are stored before and after, every other record is as it was, and no
\* other table or sequence changes; so when refresh(T) returned T' and
\* logout(T) followed, a refresh(T') that is the first call to present T',
\* before T' expires, succeeds.
C36_LogoutFrame ==
    /\ [][\A p \in Procs :
            (procs[p].op = "logout" /\ procs'[p] # procs[p]) =>
                /\ {r.id : r \in db'.tokens} = {r.id : r \in db.tokens}
                /\ Cardinality(db'.tokens) = Cardinality(db.tokens)
                /\ \A r \in db.tokens :
                    IF r.token_hash = hash_token(procs[p].token)
                    THEN r \in db'.tokens
                            \/ [r EXCEPT !.revoked = TRUE] \in db'.tokens
                    ELSE r \in db'.tokens
                /\ db' = [db EXCEPT !.tokens = db'.tokens]
                /\ ids' = ids]_vars
    /\ [](\A i, j, k \in DOMAIN log :
            ( /\ i < j /\ j < k
              /\ IsRefresh(i) /\ log[i].status = 200
              /\ log[j].op = "logout" /\ log[j].token = log[i].token
              /\ IsRefresh(k) /\ log[k].token = log[i].refresh_token
              /\ log[k].t < log[i].t + Days(REFRESH_TTL_DAYS)
              /\ \A m \in 1..(k - 1) : log[m].token # log[k].token )
                => log[k].status = 200)

\* C36's case: refresh(T) returned T', logout(T) followed, T' stayed
\* unrevoked next to the revoked T, and refresh(T') succeeded.
C36_Witness ==
    \E i, j, k \in DOMAIN log :
        /\ i < j /\ j < k
        /\ IsRefresh(i) /\ log[i].status = 200 /\ log[i].token = 1
        /\ log[j].op = "logout" /\ log[j].token = 1
        /\ IsRefresh(k) /\ log[k].token = log[i].refresh_token
        /\ log[k].status = 200
        /\ \E r \in db.tokens :
            r.token_hash = hash_token(log[k].refresh_token) /\ ~r.revoked

(***************************************************************************)
(* The login counter: four logins for a@x.com were made at time 0, and     *)
(* login and verify-otp calls follow one at a time.                        *)
(***************************************************************************)
InitLoginSeq ==
    /\ now = 0
    /\ redis = CountersAfterFourLogins
    /\ procs = [p \in Procs |-> Idle]
    /\ log = <<>>
    /\ pub = <<>>
    /\ jobs = <<>>
    /\ NoSockets
    /\ StoreAfterRegister
    /\ mode = "seq"

SpecLoginSeq == InitLoginSeq /\ [][OtpNext]_vars

\* The units of the email's counter used up before the run, in the window
\* that holds time t.
ConsumedBefore(email, t) ==
    IF email = "a@x.com" /\ t < RATE_WINDOW THEN RATE_LIMIT - 1 ELSE 0

\* Response j is a login for this email at time t that passed the limiter.
PassedLimiter(j, email, t) ==
    /\ log[j].op = "login"
    /\ log[j].email = email
    /\ log[j].t = t
    /\ log[j].status # 429

\* The logins for this email in flight that are past the limiter.
PastLimiter(email) ==
    {p \in Procs : /\ procs[p] # Idle
                   /\ procs[p].op = "login"
                   /\ procs[p].email = email
                   /\ procs[p].pc \in {"find_user", "commit_otp"}}

\* The stored counter of the email, 0 when the key is absent.
CounterOf(email) ==
    IF RedisGet(rate_key(email)) = -1 THEN 0 ELSE RedisGet(rate_key(email))

\* The counter of each email equals the units used before the run plus one
\* for each login in the present window that passed the limiter, whatever
\* its outcome; no other step lowers or deletes it.
CounterCountsEveryPassedLogin ==
    \A email \in LoginEmails :
        CounterOf(email)
            = ConsumedBefore(email, now)
              + Cardinality({j \in 1..Len(log) : PassedLimiter(j, email, now)})
              + Cardinality(PastLimiter(email))

\* A login is answered 429 exactly when RATE_LIMIT logins of its window
\* passed the limiter before it, whatever password it or they presented and
\* whatever verify-otp calls succeeded in between.
LoginAfterLimitRefused ==
    \A i \in 1..Len(log) :
        log[i].op = "login" =>
            LET n == ConsumedBefore(log[i].email, log[i].t)
                     + Cardinality({j \in 1..(i - 1) :
                            PassedLimiter(j, log[i].email, log[i].t)})
            IN  (log[i].status = 429) <=> (n >= RATE_LIMIT)

\* C37: every login that passes the limiter consumes one unit of the
\* email's counter whether or not the credentials are right, and a
\* successful login or verify-otp never resets the counter: once five logins
\* of one window have passed the limiter, the next login with the correct
\* password returns 429.
C37_LoginConsumesCounter ==
    CounterCountsEveryPassedLogin /\ LoginAfterLimitRefused

\* The fifth login of the window succeeds, its OTP is verified, and the
\* sixth login with the correct password is answered 429.
C37_Witness ==
    \E i, j, k \in 1..Len(log) :
        /\ i < j /\ j < k
        /\ log[i].op = "login" /\ log[i].status = 200
        /\ log[j].op = "verify_otp" /\ log[j].status = 200
        /\ log[k].op = "login" /\ log[k].status = 429
        /\ log[k].password = "pw"
        /\ log[k].t = log[i].t

(***************************************************************************)
(* Callers of update_task and delete_task without a membership in the      *)
(* resolved organization.                                                  *)
(***************************************************************************)
\* The call in slot p comes from a user with a membership in the
\* organization the middleware resolved for it.
CallerIsMember(p) ==
    /\ procs[p].current_org # None
    /\ HasRole(procs[p].current_user, procs[p].current_org.id,
               {"admin", "member"})

\* C38: update_task and delete_task never modify or delete a task, and
\* publish no realtime event, when the authenticated caller has no
\* membership in the organization resolved for the request.
C38_NonMemberModifiesNothing ==
    [][\A p \in Procs :
        (ModifyStep(p) /\ procs[p].pc # "require_auth" /\ ~CallerIsMember(p))
            => /\ db' = db
               /\ pub' = pub
               /\ procs'[p] = Idle \/ procs'[p].pc = "check_permissions"
       ]_vars

\* The user of Beta, assignee of task 3 of Acme, asked under Acme's Host to
\* rename it: the call ended in an error, the task is as it was and nothing
\* was published.
C38_Witness ==
    /\ \E i \in 1..Len(log) :
        /\ log[i].op = "update_task"
        /\ log[i].request.task_id = 3
        /\ log[i].request.authorization.user_id = 3
        /\ log[i].current_org # None
        /\ log[i].status = 500
    /\ TaskRow(3, 1, "Outside task", "todo", 3) \in db.tasks
    /\ pub = <<>>

(***************************************************************************)
(* routers/websocket.py: the connection registry, the endpoint of          *)
(* /ws/{org_id} and the listener that fans published events out.           *)
(***************************************************************************)
MaxWsEvents == 2    \* task requests, each publishing at most one event

\* self.active_connections[org_id].add(websocket), the key created first
\* when it is missing.
registry_add(websocket, org_id) ==
    IF org_id \in DOMAIN manager
    THEN [manager EXCEPT ![org_id] = @ \cup {websocket}]
    ELSE manager @@ (org_id :> {websocket})

\* ConnectionManager.disconnect: the socket is discarded from the set of the
\* organization, and a set left empty is deleted with its key.
disconnect(websocket, org_id) ==
    IF org_id \notin DOMAIN manager
    THEN manager
    ELSE IF manager[org_id] \ {websocket} = {}
    THEN [o \in DOMAIN manager \ {org_id} |-> manager[o]]
    ELSE [manager EXCEPT ![org_id] = @ \ {websocket}]

\* The token of the connection: the query parameter "token", else the one
\* of an "Authorization: Bearer" header, else None.
WsToken(request) ==
    IF request.token # None
    THEN request.token
    ELSE request.authorization

\* authenticate_websocket: the claims of a token that verifies and carries
\* user_id and org_id, else None (the socket is closed and 401 raised).
authenticate_websocket(request) ==
    LET token == WsToken(request)
        payload == IF token = None THEN None ELSE verify_token(token)
    IN  IF payload = None
           \/ "user_id" \notin DOMAIN payload
           \/ "org_id" \notin DOMAIN payload
        THEN None
        ELSE payload

\* The endpoint without its comparison of the token's organization.
WsOrgMismatchIgnored(token_org_id, org_id) == FALSE

\* if token_org_id != org_id
WsOrgMismatch(token_org_id, org_id) == token_org_id # org_id

\* A client opens /ws/{org_id}; the endpoint starts.
WsOpen(s, org_id, request) ==
    /\ sockets[s] = Unopened
    /\ sockets' = [sockets EXCEPT ![s] =
                      [pc |-> "authenticate", org_id |-> org_id,
                       request |-> request, client |-> "open"]]
    /\ UNCHANGED <<now, mode, redis, procs, log, dbVars, taskVars,
                   manager, listener, sent>>

\* The client goes away; the endpoint learns of it at its next await.
WsClientClose(s) ==
    /\ sockets[s].pc \notin {"unopened", "returned"}
    /\ sockets[s].client = "open"
    /\ sockets' = [sockets EXCEPT ![s].client = "closed"]
    /\ UNCHANGED <<now, mode, redis, procs, log, dbVars, taskVars,
                   manager, listener, sent>>

\* finally: manager.disconnect(websocket, org_id), and the endpoint returns.
WsReturn(s) ==
    /\ manager' = disconnect(s, sockets[s].org_id)
    /\ sockets' = [sockets EXCEPT ![s].pc = "returned"]

\* Lines 83-88: a failed authentication raises, a token of another
\* organization closes the socket and returns; otherwise the endpoint goes
\* on to manager.connect.
WsAuthenticate(s) ==
    /\ sockets[s].pc = "authenticate"
    /\ LET payload == authenticate_websocket(sockets[s].request) IN
        IF payload = None
        THEN WsReturn(s)
        ELSE IF WsOrgMismatch(payload.org_id, sockets[s].org_id)
        THEN WsReturn(s)
        ELSE /\ sockets' = [sockets EXCEPT ![s] =
                    [user_id |-> payload.user_id,
                     token_org_id |-> payload.org_id,
                     authenticated |-> now] @@ [@ EXCEPT !.pc = "connect"]]
             /\ UNCHANGED manager
    /\ UNCHANGED <<now, mode, redis, procs, log, dbVars, taskVars,
                   listener, sent>>

\* manager.connect: await websocket.accept(), then the socket is added to
\* the registry; accept may raise when the client has gone.
WsConnect(s) ==
    /\ sockets[s].pc = "connect"
    /\ \/ /\ manager' = registry_add(s, sockets[s].org_id)
          /\ sockets' = [sockets EXCEPT ![s].pc = "send_connected"]
       \/ /\ sockets[s].client = "closed"
          /\ WsReturn(s)
    /\ UNCHANGED <<now, mode, redis, procs, log, dbVars, taskVars,
                   listener, sent>>

\* The "connected" message: send_text raises when the client has gone.
WsSendConnected(s) ==
    /\ sockets[s].pc = "send_connected"
    /\ IF sockets[s].client = "open"
       THEN sockets' = [sockets EXCEPT ![s].pc = "receive"]
                /\ UNCHANGED manager
       ELSE WsReturn(s)
    /\ UNCHANGED <<now, mode, redis, procs, log, dbVars, taskVars,
                   listener, sent>>

\* The receive loop ends: WebSocketDisconnect when the client has gone, or
\* an exception (a message that is not JSON, a failed send of pong or
\* heartbeat).  Iterations that answer a ping or send a heartbeat change
\* nothing here.
WsReceive(s) ==
    /\ sockets[s].pc = "receive"
    /\ WsReturn(s)
    /\ UNCHANGED <<now, mode, redis, procs, log, dbVars, taskVars,
                   listener, sent>>

\* org_id = int(channel.split(":")[1]) of "org:{id}:tasks".
ChannelOrg(channel) == channel[2]

\* The end of send_to_org, with no await after the last send_text: the
\* sockets whose send raised are discarded from the organization's set;
\* when the key has been deleted meanwhile the lookup raises KeyError, which
\* ends redis_listener.
AfterSends(org_id, disconnected) ==
    IF disconnected = {}
    THEN /\ listener' = [pc |-> "listen", next |-> listener.next + 1]
         /\ UNCHANGED manager
    ELSE IF org_id \notin DOMAIN manager
    THEN /\ listener' = [pc |-> "dead", next |-> listener.next]
         /\ UNCHANGED manager
    ELSE /\ listener' = [pc |-> "listen", next |-> listener.next + 1]
         /\ manager' = [manager EXCEPT ![org_id] = @ \ disconnected]

\* redis_listener receives the next published event and send_to_org takes
\* its copy of the organization's sockets.
ListenerReceive ==
    /\ listener.pc = "listen"
    /\ listener.next <= Len(pub)
    /\ LET org_id == ChannelOrg(pub[listener.next].channel) IN
        IF org_id \notin DOMAIN manager
        THEN listener' = [listener EXCEPT !.next = @ + 1] /\ UNCHANGED manager
        ELSE IF manager[org_id] = {}
        THEN AfterSends(org_id, {})
        ELSE /\ listener' = [pc |-> "send", next |-> listener.next,
                             org_id |-> org_id,
                             remaining |-> manager[org_id],
                             disconnected |-> {}]
             /\ UNCHANGED manager
    /\ UNCHANGED <<now, mode, redis, procs, log, dbVars, taskVars,
                   sockets, sent>>

\* await connection.send_text(message) for one socket of the copy: the
\* message reaches a socket whose client is there and whose endpoint has not
\* returned; otherwise the send raises or is dropped.
ListenerSend ==
    /\ listener.pc = "send"
    /\ \E connection \in listener.remaining :
        LET rest == listener.remaining \ {connection}
            live == /\ sockets[connection].pc # "returned"
                    /\ sockets[connection].client = "open"
        IN
        \E raised \in IF live THEN {FALSE} ELSE {TRUE, FALSE} :
            LET disconnected ==
                    IF raised
                    THEN listener.disconnected \cup {connection}
                    ELSE listener.disconnected
            IN
            /\ sent' = IF live
                       THEN Append(sent, [socket |-> connection,
                                          org_id |-> listener.org_id,
                                          event |-> listener.next])
                       ELSE sent
            /\ IF rest = {}
               THEN AfterSends(listener.org_id, disconnected)
               ELSE /\ listener' = [listener EXCEPT
                                        !.remaining = rest,
                                        !.disconnected = disconnected]
                    /\ UNCHANGED manager
    /\ UNCHANGED <<now, mode, redis, procs, log, dbVars, taskVars, sockets>>

\* The connections clients open: with the token user 1 got for Acme at time
\* 0 or the one user 2 got for Beta, in the query or in the header, with a
\* token signed with another key, or with none.
WsRequests ==
    {[token |-> AccessTokenFromStart(
                    [user_id |-> 1, org_id |-> 1, role |-> "admin"]),
      authorization |-> None],
     [token |-> None,
      authorization |-> AccessTokenFromStart(
                    [user_id |-> 2, org_id |-> 2, role |-> "admin"])],
     [token |-> [user_id |-> 1, org_id |-> 1, role |-> "admin",
                 exp |-> Minutes(ACCESS_TTL_MIN), iss |-> JWT_ISSUER,
                 sig |-> "another-key"],
      authorization |-> None],
     [token |-> None, authorization |-> None]}

\* The task requests that publish: each admin renames the task of their
\* organization under its Host.
WsTaskRequests ==
    {[host |-> <<"acme", "example", "local">>,
      authorization |-> AccessTokenFromStart(
                    [user_id |-> 1, org_id |-> 1, role |-> "admin"]),
      task_id |-> 1, task_data |-> [title |-> "Renamed"]],
     [host |-> <<"beta", "example", "local">>,
      authorization |-> AccessTokenFromStart(
                    [user_id |-> 2, org_id |-> 2, role |-> "admin"]),
      task_id |-> 2, task_data |-> [title |-> "Renamed"]]}

WsNext ==
    \/ \E s \in Sockets, org_id \in {1, 2}, request \in WsRequests :
            WsOpen(s, org_id, request)
    \/ \E s \in Sockets : WsClientClose(s)
    \/ \E s \in Sockets : WsAuthenticate(s)
    \/ \E s \in Sockets : WsConnect(s)
    \/ \E s \in Sockets : WsSendConnected(s)
    \/ \E s \in Sockets : WsReceive(s)
    \/ ListenerReceive
    \/ ListenerSend
    \/ \E p \in Procs, request \in WsTaskRequests :
            /\ Started(TaskOps) < MaxWsEvents
            /\ tenant_middleware(p, "update_task", request)
    \/ \E p \in Procs : require_auth(p)
    \/ \E p \in Procs : find_task(p)
    \/ \E p \in Procs : check_permissions(p)
    \/ \E p \in Procs : update_task(p)
    \/ \E p \in Procs : publish(p)
    \/ TaskTick

InitWs == InitCommon /\ StoreTwoOrgs /\ mode = "seq"

\* Sockets, the listener and task updates, the sockets and the listener
\* interleaving with everything.
SpecWs == InitWs /\ [][WsNext]_vars

\* The sockets registered under the organization.
RegisteredUnder(org_id) ==
    IF org_id \in DOMAIN manager THEN manager[org_id] ELSE {}

\* The socket presented a token that verified when the endpoint read it and
\* names the organization.
PresentedTokenOf(s, org_id) ==
    /\ "authenticated" \in DOMAIN sockets[s]
    /\ LET token == WsToken(sockets[s].request) IN
        /\ token # None
        /\ token.sig = JWT_SECRET
        /\ token.exp > sockets[s].authenticated
        /\ "org_id" \in DOMAIN token
        /\ token.org_id = org_id

\* A socket in the registry of X was opened on the path of X with a
\* verifying token of X.
RegisteredOnlyWithTokenOfOrg ==
    \A org_id \in DOMAIN manager : \A s \in manager[org_id] :
        /\ sockets[s].pc # "unopened"
        /\ sockets[s].org_id = org_id
        /\ PresentedTokenOf(s, org_id)

\* A socket whose endpoint has returned is in no organization's registry.
ReturnedSocketsUnregistered ==
    \A s \in Sockets :
        sockets[s].pc = "returned" =>
            \A org_id \in DOMAIN manager : s \notin manager[org_id]

\* A broadcast message that reaches a socket is an event of the channel of
\* the organization the socket is registered under at that moment.
SentOnlyToRegistered ==
    sent' # sent =>
        LET e == sent'[Len(sent')] IN
        /\ ChannelOrg(pub[e.event].channel) = e.org_id
        /\ e.socket \in RegisteredUnder(e.org_id)
        /\ sockets[e.socket].org_id = e.org_id

\* C39: a WebSocket is registered under org X only if it presented a
\* verifying access token whose org_id equals the path org X, a message
\* published on org X's channel is sent only to sockets registered under X,
\* and after the endpoint returns for a socket that socket is in no
\* organization's registry.
C39_RealtimeIsolation ==
    /\ [](RegisteredOnlyWithTokenOfOrg /\ ReturnedSocketsUnregistered)
    /\ [][SentOnlyToRegistered]_vars

\* An event of Acme reached a socket of Acme while a socket of Beta was
\* registered and got nothing, and the endpoint of Acme's socket has since
\* returned.
C39_Witness ==
    /\ Len(sent) = 1
    /\ sent[1].org_id = 1
    /\ sockets[sent[1].socket].pc = "returned"
    /\ listener.pc = "listen" /\ listener.next = 2
    /\ \E s \in RegisteredUnder(2) : sockets[s].pc = "receive"

=============================================================================
